---- MODULE Spec2Model ----
(***************************************************************************)
(* Goose-Kixie: the endpoint prober (_try_paths), the idempotent webhook   *)
(* handler (webhooks + EventLog), the dialer lease queue (bulk_seed,       *)
(* sync_queue, next_contact + DialerQueue), phone normalization and the    *)
(* tiered contact search by phone, the kixie_webhook handler, contact     *)
(* resolution, history writing, installation, phone-field discovery, the   *)
(* Kixie client and the two-stage search, each as a state machine.         *)
(*                                                                         *)
(* The specifications share the variables:                                 *)
(*   SpecProbe    one call of _try_paths over a drawn matrix of answers    *)
(*   SpecWebhook  concurrent deliveries to POST /webhooks                  *)
(*   SpecQueue    concurrent callers of GET /next, seeding, the clock      *)
(*   SpecLease    GET /next over rows of several keys and campaigns        *)
(*   SpecEnqueue  concurrent POST /queue/bulk and /queue/sync requests     *)
(*   SpecPhone    the normalizers applied to a drawn raw phone, twice      *)
(*   SpecContains one call of _odata_try_contains                          *)
(*   SpecSearch   one contact search by phone through its tiers            *)
(*   SpecScan     one call of _odata_scan_pages                            *)
(*   SpecKixie    one delivery to POST /dialer/kixie/webhook               *)
(*   SpecResolve  one call of _find_or_create_contact                      *)
(*   SpecHistory  one history write of webhooks or kixie_webhook           *)
(*   SpecInstall  a sequence of POST /install requests                     *)
(*   SpecFields   one call of probe_odata_phone_fields                     *)
(*   SpecPost     one call of _post of the Kixie client with its retries   *)
(*   SpecIdem     idem_key of a drawn tenant, event and payload            *)
(*   SpecReclaim  GET /next by two agents over a lease already held        *)
(*   SpecTenants  seeding and GET /next for two tenants and two campaigns  *)
(*   SpecRepeat   GET /next called for ever by one agent, relative time    *)
(*   SpecTwoStage one call of search_contact_keys_by_phone_two_stage       *)
(* A specification leaves the variables of the others at their initial     *)
(* values.                                                                 *)
(***************************************************************************)
EXTENDS Integers, Sequences, FiniteSets

VARIABLES
    tp_in,      \* _try_paths: its inputs (number of bases, of paths, the remote's answers)
    tp,         \* _try_paths: loop position, `last`, requests sent, returned value
    event_log,  \* table event_log: sequence of rows in insertion order
    deliveries, \* webhook deliveries: position in the handler, inputs, response
    crm,        \* the CRM as webhooks changes it: contacts created, history written
    queue,      \* table dialer_queue: sequence of rows, id = index
    clock,      \* wall clock read by datetime.now()
    calls,      \* next_contact calls in flight or returned
    ncalls,     \* number of next_contact calls started so far
    seeds,      \* bulk_seed / sync_queue requests in flight or answered
    ph,         \* phone normalization: the raw string and its normalizations
    tc,         \* _odata_try_contains: fields, probe outcomes, the filter sent, the result
    sr,          \* contact search by phone: position in the tiers, calls made, answers, result
    sp,          \* _odata_scan_pages: loop position, page requests sent, returned value
    kw,          \* kixie_webhook: position in the handler, inputs, CRM operations issued, response
    rc,          \* _find_or_create_contact: tier reached, calls made with their answers, returned contact
    hw,          \* history writing: candidate reached, attempts made, errors collected, log row, response
    ins,         \* install: rows of table tenant added so far, the request in hand, its response
    pf,          \* probe_odata_phone_fields: candidates, probes made with their outcome, validated fields, returned list
    kp,          \* _post of kixie_api: attempt, requests sent with their answers, returned or raised value
    ik,          \* idem_key: two deliveries' inputs and the fingerprints computed for them
    ts          \* search_contact_keys_by_phone_two_stage: one call

vars == <<tp_in, tp, event_log, deliveries, crm, queue, clock, calls, ncalls, seeds, ph, tc, sr, sp, kw, rc, hw, ins, pf, kp, ik, ts>>

probeVars == <<tp_in, tp>>
webhookVars == <<event_log, deliveries, crm>>
queueVars == <<queue, clock, calls, ncalls>>
seedVars == <<seeds>>
phoneVars == <<ph>>
containsVars == <<tc>>
searchVars == <<sr>>
scanVars == <<sp>>
kixieVars == <<kw>>
resolveVars == <<rc>>
historyVars == <<hw>>
installVars == <<ins>>
fieldsVars == <<pf>>
postVars == <<kp>>
idemVars == <<ik>>
twoStageVars == <<ts>>

\* Python's None, and a value that is not None
None == [none |-> TRUE]
Some(x) == [v |-> x]

(***************************************************************************)
(* Endpoint prober: app/services/realnex_api.py                            *)
(***************************************************************************)

\* Bounds on the candidate lists of one probe.
NumBases == 2
NumPaths == 2

\* What the remote does with one request: an HTTP response (status code and,
\* when the JSON body carries its own "status" member, that member), or a
\* transport failure (httpx.HTTPError).
Answers ==
    { [kind |-> "http", code |-> 200, body_status |-> None],
      [kind |-> "http", code |-> 404, body_status |-> None],
      [kind |-> "http", code |-> 200, body_status |-> Some(404)],
      [kind |-> "transport"] }

\* url = f"{base}/{path}"
Url(base, path) == <<base, path>>

\* The order in which the nested loops visit the candidates, path-major
\* (the loops swapped).
PairOrderPathMajor(nb, np) ==
    [k \in 1..(nb * np) |-> <<((k - 1) % nb) + 1, ((k - 1) \div nb) + 1>>]

\* for base in BASES: for path in paths
PairOrder(nb, np) ==
    [k \in 1..(nb * np) |-> <<((k - 1) \div np) + 1, ((k - 1) % np) + 1>>]

\* _format_resp: the body as a dict, "status" and "url" added unless the body
\* already has them (dict.setdefault).
_format_resp(r, url) ==
    [status |-> IF r.body_status = None THEN r.code ELSE r.body_status.v,
     url |-> url]

\* One iteration of the loop body that goes on after a transport failure.
TryPathsIterNoAbort(st, ans, url) ==
    IF ans.kind = "transport"
    THEN [st EXCEPT !.k = st.k + 1, !.sent = Append(st.sent, url)]
    ELSE IF ans.code # 404
    THEN [st EXCEPT !.sent = Append(st.sent, url), !.pc = "returned_response",
                    !.result = _format_resp(ans, url)]
    ELSE [st EXCEPT !.k = st.k + 1, !.sent = Append(st.sent, url),
                    !.last = [resp |-> ans, url |-> url]]

\* One iteration of the loop body: send, then return, remember or give up.
TryPathsIter(st, ans, url) ==
    IF ans.kind = "transport"
    THEN [st EXCEPT !.sent = Append(st.sent, url), !.pc = "returned_transport",
                    !.result = [status |-> 599, error |-> "HTTPError", attempted |-> url]]
    ELSE IF ans.code # 404
    THEN [st EXCEPT !.sent = Append(st.sent, url), !.pc = "returned_response",
                    !.result = _format_resp(ans, url)]
    ELSE [st EXCEPT !.k = st.k + 1, !.sent = Append(st.sent, url),
                    !.last = [resp |-> ans, url |-> url]]

\* No call of _try_paths.
NoProbe == [nb |-> 0, np |-> 1, answers |-> <<>>]

\* _try_paths before its first request: last = None.
ProbeStart == [k |-> 1, last |-> None, sent |-> <<>>, result |-> None, pc |-> "loop"]

\* _try_paths, the loop: the next candidate in order is requested.
TryPathsSend ==
    /\ tp.pc = "loop"
    /\ tp.k <= tp_in.nb * tp_in.np
    /\ LET pair == PairOrder(tp_in.nb, tp_in.np)[tp.k]
       IN tp' = TryPathsIter(tp, tp_in.answers[pair], Url(pair[1], pair[2]))
    /\ UNCHANGED <<tp_in, webhookVars, queueVars, seedVars, phoneVars, containsVars, searchVars, scanVars, kixieVars, resolveVars, historyVars, installVars, fieldsVars, postVars, idemVars, twoStageVars>>

\* _try_paths, after the loops: every candidate answered 404 (or there was none).
TryPathsExhausted ==
    /\ tp.pc = "loop"
    /\ tp.k > tp_in.nb * tp_in.np
    /\ tp' = [tp EXCEPT !.pc = "returned_exhausted",
                        !.result = IF tp.last # None
                                   THEN _format_resp(tp.last.resp, tp.last.url)
                                   ELSE [status |-> 404, error |-> "Not Found"]]
    /\ UNCHANGED <<tp_in, webhookVars, queueVars, seedVars, phoneVars, containsVars, searchVars, scanVars, kixieVars, resolveVars, historyVars, installVars, fieldsVars, postVars, idemVars, twoStageVars>>

(***************************************************************************)
(* Idempotent webhook handler: routes/kixie.py, app/routes/kixie.py, with  *)
(* the event_log table of models/eventlog.py.  The handler is cut where    *)
(* another delivery can run in between: after the dedupe query, around     *)
(* each awaited CRM exchange, before the insert.                           *)
(***************************************************************************)

\* Bound on the number of deliveries.
MaxDeliveries == 2

\* Rows of table tenant, as install leaves them.
TenantTable ==
    << [id |-> 1, kixie_business_id |-> "biz1", active |-> TRUE, webhook_secret |-> "s1"],
       [id |-> 2, kixie_business_id |-> "biz2", active |-> TRUE, webhook_secret |-> "s2"] >>

\* Inputs of a delivery.
BusinessIds == {"biz1", "biz2", "nobiz"}
Secrets == {"s1", "s2"}
CallIds == {None, Some("c1")}
HookEvents == {"endcall"}
Numbers == {"", "+18584581063"}

IntStr(n) == CASE n = 1 -> "1" [] n = 2 -> "2" [] OTHER -> "0"

\* db.query(Tenant).filter(kixie_business_id == business_id, active == True).first()
find_tenant(business_id) ==
    LET hits == {i \in 1..Len(TenantTable) :
                    /\ TenantTable[i].kixie_business_id = business_id
                    /\ TenantTable[i].active}
    IN IF hits = {} THEN None
       ELSE TenantTable[CHOOSE i \in hits : \A j \in hits : i <= j]

\* sha256(f"{tenant_id}|{callid or ''}|{event}").hexdigest(); the digest is
\* taken to be collision-free and stands for the string it hashes.
idem_key(tenant_id, callid, event) ==
    IntStr(tenant_id) \o "|" \o (IF callid = None THEN "" ELSE callid.v) \o "|" \o event

\* A dedupe query that never finds a row.
DedupeMiss(log, key) == FALSE

\* A dedupe query that passes over the rows of failed events.
DedupeHitOkOnly(log, key) ==
    \E i \in 1..Len(log) : log[i].idem_key = key /\ log[i].status = "ok"

\* db.query(EventLog).filter_by(idem_key=key).first() is not None
DedupeHit(log, key) == \E i \in 1..Len(log) : log[i].idem_key = key

\* A column idem_key without unique=True.
NoUniqueConstraint(log, key) == FALSE

\* idem_key = Column(String, nullable=False, unique=True): the INSERT of a
\* second row with the same idem_key fails with IntegrityError.
UniqueViolation(log, key) == \E i \in 1..Len(log) : log[i].idem_key = key

\* The deliveries that are past the dedupe query and have not inserted yet.
InFlight == {i \in 1..Len(deliveries) : deliveries[i].pc \in {"resolve", "history", "log"}}

\* The CRM before any delivery.
NoCrmWrites == [contacts |-> {}, history |-> {}]

\* webhooks up to its first await: tenant lookup, secret, fingerprint, dedupe.
WebhookReceive(businessid, x_goose_secret, callid, hookevent) ==
    /\ Len(deliveries) < MaxDeliveries
    /\ LET tenant == find_tenant(businessid)
           key == IF tenant = None \/ x_goose_secret # tenant.webhook_secret THEN ""
                  ELSE idem_key(tenant.id, callid, hookevent)
           base == [businessid |-> businessid, callid |-> callid, hookevent |-> hookevent,
                    x_goose_secret |-> x_goose_secret,
                    tenant_id |-> IF tenant = None THEN 0 ELSE tenant.id,
                    key |-> key, passed |-> FALSE, raced |-> FALSE,
                    after |-> {i \in 1..Len(deliveries) : deliveries[i].pc = "done"},
                    searched |-> FALSE, created |-> FALSE, wrote_history |-> FALSE,
                    appended |-> FALSE, integrity_error |-> FALSE,
                    status |-> "ok", error |-> None,
                    pc |-> "done", resp |-> None]
           rivals == {i \in InFlight : deliveries[i].key = key}
       IN IF tenant = None
          THEN deliveries' = Append(deliveries,
                    [base EXCEPT !.resp = [code |-> 404, detail |-> "Unknown businessid"]])
          ELSE IF x_goose_secret # tenant.webhook_secret
          THEN deliveries' = Append(deliveries,
                    [base EXCEPT !.resp = [code |-> 401, detail |-> "Invalid signature"]])
          ELSE IF DedupeHit(event_log, key)
          THEN deliveries' = Append(deliveries,
                    [base EXCEPT !.resp = [code |-> 200, ok |-> TRUE, duplicate |-> TRUE]])
          ELSE deliveries' = Append(
                    [i \in 1..Len(deliveries) |->
                        IF i \in rivals THEN [deliveries[i] EXCEPT !.raced = TRUE]
                        ELSE deliveries[i]],
                    [base EXCEPT !.pc = "resolve", !.passed = TRUE,
                                 !.raced = (rivals # {})])
    /\ UNCHANGED <<event_log, crm, probeVars, queueVars, seedVars, phoneVars, containsVars, searchVars, scanVars, kixieVars, resolveVars, historyVars, installVars, fieldsVars, postVars, idemVars, twoStageVars>>

\* webhooks: the counterparty number, then await _find_or_create_contact and
\* extract_contact_id.  `found` says what the CRM's searches and its create did.
WebhookResolve(d, num, found) ==
    /\ d \in 1..Len(deliveries)
    /\ deliveries[d].pc = "resolve"
    /\ IF num = ""
       THEN /\ deliveries' = [deliveries EXCEPT ![d].pc = "log", ![d].status = "error",
                                 ![d].error = Some("400: No phone number in payload")]
            /\ UNCHANGED crm
       ELSE LET creates == found \in {"created", "created_no_id", "create_raised"}
                next == [deliveries[d] EXCEPT !.searched = TRUE, !.created = creates]
            IN /\ crm' = IF found \in {"created", "created_no_id"}
                         THEN [crm EXCEPT !.contacts = @ \cup {d}] ELSE crm
               /\ deliveries' = [deliveries EXCEPT ![d] =
                    CASE found \in {"matched", "created"} -> [next EXCEPT !.pc = "history"]
                      [] found \in {"matched_no_id", "created_no_id"} ->
                            [next EXCEPT !.pc = "log", !.status = "error",
                                !.error = Some("500: Unable to resolve RealNex contact id")]
                      [] OTHER ->
                            [next EXCEPT !.pc = "log", !.status = "error",
                                !.error = Some("create_contact_by_number raised")]]
    /\ UNCHANGED <<event_log, probeVars, queueVars, seedVars, phoneVars, containsVars, searchVars, scanVars, kixieVars, resolveVars, historyVars, installVars, fieldsVars, postVars, idemVars, twoStageVars>>

ResolveOutcomes == {"matched", "matched_no_id", "created", "created_no_id", "create_raised"}

\* webhooks: await create_history_odata, then the legacy candidates until one
\* is accepted; HTTPException 502 when none is.
WebhookHistory(d, outcome) ==
    /\ d \in 1..Len(deliveries)
    /\ deliveries[d].pc = "history"
    /\ IF outcome \in {"odata_accepted", "legacy_accepted"}
       THEN /\ crm' = [crm EXCEPT !.history = @ \cup {d}]
            /\ deliveries' = [deliveries EXCEPT ![d].pc = "log", ![d].wrote_history = TRUE]
       ELSE /\ UNCHANGED crm
            /\ deliveries' = [deliveries EXCEPT ![d].pc = "log", ![d].status = "error",
                    ![d].error = IF outcome = "all_rejected"
                                 THEN Some("502: RealNex History rejected all payloads")
                                 ELSE Some("create_history raised")]
    /\ UNCHANGED <<event_log, probeVars, queueVars, seedVars, phoneVars, containsVars, searchVars, scanVars, kixieVars, resolveVars, historyVars, installVars, fieldsVars, postVars, idemVars, twoStageVars>>

HistoryOutcomes == {"odata_accepted", "legacy_accepted", "all_rejected", "raised"}

\* webhooks: db.add(EventLog(...)); db.commit(); then the response.  An
\* IntegrityError of the commit leaves the handler unhandled: a 500 and no row.
WebhookLog(d) ==
    /\ d \in 1..Len(deliveries)
    /\ deliveries[d].pc = "log"
    /\ LET me == deliveries[d]
       IN IF UniqueViolation(event_log, me.key)
          THEN /\ UNCHANGED event_log
               /\ deliveries' = [deliveries EXCEPT ![d].pc = "done",
                     ![d].integrity_error = TRUE,
                     ![d].resp = [code |-> 500, detail |-> "Internal Server Error"]]
          ELSE /\ event_log' = Append(event_log,
                     [tenant_id |-> me.tenant_id, event_type |-> me.hookevent,
                      callid |-> me.callid, idem_key |-> me.key,
                      status |-> me.status, error |-> me.error, by |-> d])
               /\ deliveries' = [deliveries EXCEPT ![d].pc = "done", ![d].appended = TRUE,
                     ![d].resp = IF me.error # None
                                 THEN [code |-> 500, detail |-> me.error.v]
                                 ELSE [code |-> 200, ok |-> TRUE]]
    /\ UNCHANGED <<crm, probeVars, queueVars, seedVars, phoneVars, containsVars, searchVars, scanVars, kixieVars, resolveVars, historyVars, installVars, fieldsVars, postVars, idemVars, twoStageVars>>

WebhookNext ==
    \/ \E b \in BusinessIds, s \in Secrets, c \in CallIds, e \in HookEvents :
          WebhookReceive(b, s, c, e)
    \/ \E d \in 1..MaxDeliveries, n \in Numbers, f \in ResolveOutcomes : WebhookResolve(d, n, f)
    \/ \E d \in 1..MaxDeliveries, o \in HistoryOutcomes : WebhookHistory(d, o)
    \/ \E d \in 1..MaxDeliveries : WebhookLog(d)

(***************************************************************************)
(* Lease queue: app/routes/dailer.py with table dialer_queue               *)
(* (app/models/dialer_queue.py).  next_contact is a sync handler run on    *)
(* the thread pool with a session of its own, so it is cut at its SQL      *)
(* statements: the query for expired locks, their release, the query for   *)
(* the next pending row, the UPDATE that locks it.  One unit of the clock  *)
(* is 30 seconds, the least lock_ttl_sec.                                  *)
(***************************************************************************)

\* Bounds: clock ticks, next_contact calls.  The queue is bounded by the
\* inputs of a seed: one tenant, one object key, two campaigns.
MaxClock == 2
MaxCalls == 2

Agents == {"a1", "a2"}
\* no business id and "biz2" both address tenant 2
QueueBusinessIds == {None, Some("biz2")}
Campaigns == {None, Some("c1")}
ObjectKeys == {"k1"}
Names == {"Ann"}
\* lock_ttl_sec: int = Query(120, ge=30, le=600), in clock units
LockTtls == {1, 2}

\* find_tenant of dailer.py: the active tenant of that business id, or with no
\* business id the active tenant with the greatest id; 404 when there is none.
dialer_find_tenant(business_id) ==
    LET hits == {i \in 1..Len(TenantTable) :
                    /\ TenantTable[i].active
                    /\ business_id # None => TenantTable[i].kixie_business_id = business_id.v}
    IN IF hits = {} THEN None
       ELSE TenantTable[CHOOSE i \in hits : \A j \in hits : TenantTable[j].id <= TenantTable[i].id]

IdleCall ==
    [pc |-> "idle", no |-> 0, tenant_id |-> 0, campaign |-> None, lock_ttl_sec |-> 0,
     now |-> 0, expired |-> {}, item |-> 0, result |-> None]

\* datetime.now(timezone.utc) moves on.
Tick ==
    /\ clock < MaxClock
    /\ clock' = clock + 1
    /\ UNCHANGED <<queue, calls, ncalls, probeVars, webhookVars, seedVars, phoneVars, containsVars, searchVars, scanVars, kixieVars, resolveVars, historyVars, installVars, fieldsVars, postVars, idemVars, twoStageVars>>

\* A lookup of the row to upsert that leaves the tenant out.
SeedMatchesAnyTenant(tenant_id, campaign, object_key) ==
    {i \in 1..Len(queue) :
        /\ queue[i].object_key = object_key
        /\ queue[i].campaign = campaign}

\* The rows a seed request addresses: same tenant, object key and campaign.
SeedMatches(tenant_id, campaign, object_key) ==
    {i \in 1..Len(queue) :
        /\ queue[i].tenant_id = tenant_id
        /\ queue[i].object_key = object_key
        /\ queue[i].campaign = campaign}

\* bulk_seed with one item whose phone number normalizes: update the first
\* matching row's contact fields, or add a pending row.
BulkSeed(businessid, campaign, object_key, name_first) ==
    /\ LET tenant == dialer_find_tenant(businessid)
           found == SeedMatches(tenant.id, campaign, object_key)
       IN /\ tenant # None
          /\ IF found # {}
             THEN LET i == CHOOSE i \in found : \A j \in found : i <= j
                  IN queue' = [queue EXCEPT ![i].name_first =
                                  IF name_first # "" THEN name_first ELSE @]
             ELSE queue' = Append(queue,
                        [tenant_id |-> tenant.id, campaign |-> campaign,
                         object_key |-> object_key, name_first |-> name_first,
                         status |-> "pending", locked_by |-> None, locked_at |-> None,
                        attempts |-> 0, created_at |-> clock,
                        lease_ttl |-> 0, prev_lease |-> None, holders |-> {}, epoch |-> 0])
    /\ UNCHANGED <<clock, calls, ncalls, probeVars, webhookVars, seedVars, phoneVars, containsVars, searchVars, scanVars, kixieVars, resolveVars, historyVars, installVars, fieldsVars, postVars, idemVars, twoStageVars>>

\* next_contact: tenant, now, and the query for expired locks of the tenant.
NextStart(a, businessid, campaign, lock_ttl_sec) ==
    /\ calls[a].pc \in {"idle", "done"}
    /\ ncalls < MaxCalls
    /\ LET tenant == dialer_find_tenant(businessid)
           now == clock
           ttl_cutoff == now - lock_ttl_sec
           expired == {i \in 1..Len(queue) :
                          /\ queue[i].tenant_id = tenant.id
                          /\ queue[i].status = "locked"
                          /\ queue[i].locked_at.v < ttl_cutoff}
       IN /\ tenant # None
          /\ calls' = [calls EXCEPT ![a] =
                [pc |-> IF expired # {} THEN "reclaim" ELSE "pick",
                 no |-> ncalls + 1, tenant_id |-> tenant.id, campaign |-> campaign,
                 lock_ttl_sec |-> lock_ttl_sec, now |-> now, expired |-> expired,
                 item |-> 0, result |-> None]]
    /\ ncalls' = ncalls + 1
    /\ UNCHANGED <<queue, clock, probeVars, webhookVars, seedVars, phoneVars, containsVars, searchVars, scanVars, kixieVars, resolveVars, historyVars, installVars, fieldsVars, postVars, idemVars, twoStageVars>>

\* The lease a locked row stands for: holder, start, and the lock_ttl_sec of
\* the call that took it (bookkeeping; the table has no column for the TTL).
LeaseOf(r) == [by |-> r.locked_by.v, at |-> r.locked_at.v, ttl |-> r.lease_ttl]

\* A release that resets the status and leaves the holder in place.
ReleasedRowKeepsHolder(r) ==
    [r EXCEPT !.status = "pending", !.locked_at = None,
              !.lease_ttl = 0, !.holders = {},
              !.prev_lease = IF r.status = "locked" THEN LeaseOf(r) ELSE @,
              !.epoch = IF r.status = "locked" THEN r.epoch + 1 ELSE r.epoch]

\* for r in expired: r.status = "pending"; r.locked_by = None; r.locked_at = None
\* (with the bookkeeping of the lease it ends)
ReleasedRow(r) ==
    [r EXCEPT !.status = "pending", !.locked_by = None, !.locked_at = None,
              !.lease_ttl = 0, !.holders = {},
              !.prev_lease = IF r.status = "locked" THEN LeaseOf(r) ELSE @,
              !.epoch = IF r.status = "locked" THEN r.epoch + 1 ELSE r.epoch]

\* next_contact: the loaded expired rows are written back as pending; commit.
NextReclaim(a) ==
    /\ calls[a].pc = "reclaim"
    /\ queue' = [i \in 1..Len(queue) |->
                    IF i \in calls[a].expired THEN ReleasedRow(queue[i]) ELSE queue[i]]
    /\ calls' = [calls EXCEPT ![a].pc = "pick", ![a].expired = {}]
    /\ UNCHANGED <<clock, ncalls, probeVars, webhookVars, seedVars, phoneVars, containsVars, searchVars, scanVars, kixieVars, resolveVars, historyVars, installVars, fieldsVars, postVars, idemVars, twoStageVars>>

\* A pick with no order_by: any pending row of the tenant and campaign.
FirstPendingUnordered(tenant_id, campaign) ==
    {i \in 1..Len(queue) :
        /\ queue[i].tenant_id = tenant_id
        /\ queue[i].status = "pending"
        /\ queue[i].campaign = campaign}

\* The pending rows of the tenant and campaign that order_by(attempts, created_at)
\* can put first.
FirstPending(tenant_id, campaign) ==
    LET cand == {i \in 1..Len(queue) :
                    /\ queue[i].tenant_id = tenant_id
                    /\ queue[i].status = "pending"
                    /\ queue[i].campaign = campaign}
        Before(i, j) == \/ queue[i].attempts < queue[j].attempts
                        \/ /\ queue[i].attempts = queue[j].attempts
                           /\ queue[i].created_at < queue[j].created_at
    IN {i \in cand : \A j \in cand : ~Before(j, i)}

\* next_contact: the query for the next pending row; 404 when there is none.
NextPick(a) ==
    /\ calls[a].pc = "pick"
    /\ LET first == FirstPending(calls[a].tenant_id, calls[a].campaign)
       IN IF first = {}
          THEN calls' = [calls EXCEPT ![a] = [IdleCall EXCEPT !.pc = "done",
                            !.result = [code |-> 404, detail |-> "No pending records"]]]
          ELSE \E i \in first : calls' = [calls EXCEPT ![a].pc = "lock", ![a].item = i]
    /\ UNCHANGED <<queue, clock, ncalls, probeVars, webhookVars, seedVars, phoneVars, containsVars, searchVars, scanVars, kixieVars, resolveVars, historyVars, installVars, fieldsVars, postVars, idemVars, twoStageVars>>

\* A lock that marks the row done.
LockedRowDone(r, agent, now, ttl, no) ==
    [r EXCEPT !.status = "done", !.locked_by = Some(agent), !.locked_at = Some(now),
              !.lease_ttl = ttl, !.holders = @ \cup {no},
              !.prev_lease = IF r.status = "locked" THEN LeaseOf(r) ELSE @]

\* item.status = "locked"; item.locked_by = agent; item.locked_at = now
\* (with the bookkeeping of the lease it starts and of the one it replaces)
LockedRow(r, agent, now, ttl, no) ==
    [r EXCEPT !.status = "locked", !.locked_by = Some(agent), !.locked_at = Some(now),
              !.lease_ttl = ttl, !.holders = @ \cup {no},
              !.prev_lease = IF r.status = "locked" THEN LeaseOf(r) ELSE @]

\* next_contact: UPDATE of the picked row by primary key, commit, response.
NextLock(a) ==
    /\ calls[a].pc = "lock"
    /\ LET c == calls[a]
       IN /\ queue' = [queue EXCEPT ![c.item] =
                          LockedRow(@, a, c.now, c.lock_ttl_sec, c.no)]
          /\ calls' = [calls EXCEPT ![a] = [IdleCall EXCEPT !.pc = "done",
                          !.result = [code |-> 200, id |-> c.item,
                                      contact_key |-> queue[c.item].object_key]]]
    /\ UNCHANGED <<clock, ncalls, probeVars, webhookVars, seedVars, phoneVars, containsVars, searchVars, scanVars, kixieVars, resolveVars, historyVars, installVars, fieldsVars, postVars, idemVars, twoStageVars>>

QueueNext ==
    \/ Tick
    \/ \E b \in QueueBusinessIds, c \in Campaigns, k \in ObjectKeys, n \in Names :
          BulkSeed(b, c, k, n)
    \/ \E a \in Agents, b \in QueueBusinessIds, c \in Campaigns, t \in LockTtls :
          NextStart(a, b, c, t)
    \/ \E a \in Agents : NextReclaim(a)
    \/ \E a \in Agents : NextPick(a)
    \/ \E a \in Agents : NextLock(a)

(***************************************************************************)
(* Enqueue: bulk_seed and sync_queue of app/routes/dailer.py.  Both run    *)
(* the same upsert per item on a session with autoflush=False              *)
(* (app/services/db.py): the SELECT of an item sees the committed rows     *)
(* only, inserts and changes wait in the session for db.commit(), at the   *)
(* end of the request (bulk_seed) or of each page (sync_queue).  bulk_seed *)
(* runs on the thread pool and several service instances may run, so a     *)
(* request is cut at its SQL statements.  name_first stands for the merged *)
(* columns (name_first, name_last, company, email: `new or old`).          *)
(***************************************************************************)

\* Bounds: items of a bulk body or of a CRM page, pages of a sync.
MaxBatch == 2
MaxPages == 2

Seeders == {"s1", "s2"}

\* An item of BulkBody.items / a contact of an OData page: its key, whether
\* normalize_e164 of its phone gives a value, its first name, DoNotCall.
SeedItem(key, phone_ok, name, dnc) ==
    [object_key |-> key, phone_ok |-> phone_ok, name_first |-> name, do_not_call |-> dnc]

\* BulkItem: object_key and phone_e164 are required strings, the name may be "".
BulkItems ==
    { SeedItem(Some("k1"), TRUE, "Ann", FALSE), SeedItem(Some("k1"), TRUE, "", FALSE),
      SeedItem(Some("k1"), FALSE, "Bob", FALSE) }

\* Contacts of the CRM: callable, flagged DoNotCall, or without a key.
SyncContacts ==
    { SeedItem(Some("k1"), TRUE, "Bob", FALSE), SeedItem(Some("k1"), TRUE, "Bob", TRUE),
      SeedItem(None, TRUE, "Bob", FALSE) }

\* Sequences of 0..n elements of S.
SeqUpTo(S, n) == UNION {[1..m -> S] : m \in 0..n}

\* The items bulk_seed and sync_queue skip before the upsert.
Skipped(kind, it) ==
    IF kind = "sync"
    THEN it.do_not_call \/ ~it.phone_ok \/ it.object_key = None
    ELSE ~it.phone_ok

IdleSeed ==
    [pc |-> "idle", kind |-> "", businessid |-> None, tenant_id |-> 0,
     campaign |-> None, pages |-> <<>>,
     page |-> 0, k |-> 0, adds |-> <<>>, upd |-> {}, resp |-> None]

\* bulk_seed / sync_queue: tenant lookup, then the loop over the items.
SeedRequest(s, kind, businessid, campaign, pages) ==
    /\ seeds[s].pc = "idle"
    /\ LET tenant == dialer_find_tenant(businessid)
       IN /\ tenant # None
          /\ seeds' = [seeds EXCEPT ![s] =
                [pc |-> IF pages = <<>> THEN "done"
                        ELSE IF pages[1] = <<>> THEN "commit" ELSE "item",
                 kind |-> kind, businessid |-> businessid,
                 tenant_id |-> tenant.id, campaign |-> campaign,
                 pages |-> pages, page |-> IF pages = <<>> THEN 0 ELSE 1, k |-> 1,
                 adds |-> <<>>, upd |-> {},
                 resp |-> IF pages = <<>> THEN [code |-> 200, ok |-> TRUE] ELSE None]]
    /\ UNCHANGED <<queueVars, probeVars, webhookVars, phoneVars, containsVars, searchVars, scanVars, kixieVars, resolveVars, historyVars, installVars, fieldsVars, postVars, idemVars, twoStageVars>>

\* The loop body for one item: skip it, or SELECT the row of (tenant, object_key,
\* campaign) among the committed rows; a row found takes the item's non-empty
\* name in the session, and without one a new row is added to the session.
SeedUpsert(s) ==
    /\ seeds[s].pc = "item"
    /\ LET r == seeds[s]
           it == r.pages[r.page][r.k]
           found == IF it.object_key = None THEN {}
                    ELSE SeedMatches(r.tenant_id, r.campaign, it.object_key.v)
           nextpc == IF r.k = Len(r.pages[r.page]) THEN "commit" ELSE "item"
       IN IF Skipped(r.kind, it)
          THEN seeds' = [seeds EXCEPT ![s].k = @ + 1, ![s].pc = nextpc]
          ELSE IF found # {}
          THEN \E i \in found :
                  seeds' = [seeds EXCEPT ![s].k = @ + 1, ![s].pc = nextpc,
                      ![s].upd = IF it.name_first = "" THEN @
                                 ELSE {u \in @ : u[1] # i} \cup {<<i, it.name_first>>}]
          ELSE seeds' = [seeds EXCEPT ![s].k = @ + 1, ![s].pc = nextpc,
                      ![s].adds = Append(@, [object_key |-> it.object_key.v,
                                             name_first |-> it.name_first])]
    /\ UNCHANGED <<queueVars, probeVars, webhookVars, phoneVars, containsVars, searchVars, scanVars, kixieVars, resolveVars, historyVars, installVars, fieldsVars, postVars, idemVars, twoStageVars>>

\* UniqueConstraint(tenant_id, campaign, object_key) as the INSERTs of a flush
\* meet it: a row and an insert, or two inserts, with the same key collide when
\* the campaign is not NULL (NULLs are distinct to a unique index).
SeedUniqueViolation(r) ==
    /\ r.campaign # None
    /\ \/ \E a \in 1..Len(r.adds) :
             SeedMatches(r.tenant_id, r.campaign, r.adds[a].object_key) # {}
       \/ \E a, b \in 1..Len(r.adds) : a # b /\ r.adds[a].object_key = r.adds[b].object_key

\* DialerQueue(..., status="pending") as inserted at `now`.
NewRow(tenant_id, campaign, object_key, name_first, now) ==
    [tenant_id |-> tenant_id, campaign |-> campaign,
     object_key |-> object_key, name_first |-> name_first,
     status |-> "pending", locked_by |-> None, locked_at |-> None,
     attempts |-> 0, created_at |-> now,
     lease_ttl |-> 0, prev_lease |-> None, holders |-> {}, epoch |-> 0]

\* db.commit(): the session's UPDATEs and INSERTs in one transaction.  An
\* IntegrityError rolls it back and ends the request with a 500; otherwise the
\* request goes on with the next page or answers.
SeedCommit(s) ==
    /\ seeds[s].pc = "commit"
    /\ LET r == seeds[s]
           more == r.page < Len(r.pages)
           updated == [i \in 1..Len(queue) |->
                          IF \E u \in r.upd : u[1] = i
                          THEN [queue[i] EXCEPT !.name_first =
                                   (CHOOSE u \in r.upd : u[1] = i)[2]]
                          ELSE queue[i]]
           inserted == [a \in 1..Len(r.adds) |->
                          NewRow(r.tenant_id, r.campaign, r.adds[a].object_key,
                                 r.adds[a].name_first, clock)]
       IN IF SeedUniqueViolation(r)
          THEN /\ queue' = queue
               /\ seeds' = [seeds EXCEPT ![s].pc = "done", ![s].adds = <<>>, ![s].upd = {},
                               ![s].resp = [code |-> 500, detail |-> "Internal Server Error"]]
          ELSE /\ queue' = updated \o inserted
               /\ seeds' = [seeds EXCEPT
                      ![s].pc = IF ~more THEN "done"
                                ELSE IF r.pages[r.page + 1] = <<>> THEN "commit" ELSE "item",
                      ![s].page = IF more THEN @ + 1 ELSE @, ![s].k = 1,
                      ![s].adds = <<>>, ![s].upd = {},
                      ![s].resp = IF more THEN None ELSE [code |-> 200, ok |-> TRUE]]
    /\ UNCHANGED <<clock, calls, ncalls, probeVars, webhookVars, phoneVars, containsVars, searchVars, scanVars, kixieVars, resolveVars, historyVars, installVars, fieldsVars, postVars, idemVars, twoStageVars>>

\* Seeds of both kinds by two clients, and the next_contact calls of one agent
\* that lock what was seeded.
EnqueueNext ==
    \/ \E s \in Seeders, c \in Campaigns : \E items \in SeqUpTo(BulkItems, MaxBatch) :
          SeedRequest(s, "bulk", None, c, <<items>>)
    \/ \E s \in Seeders, c \in Campaigns :
          \E pages \in SeqUpTo(SeqUpTo(SyncContacts, MaxBatch - 1), MaxPages) :
             SeedRequest(s, "sync", None, c, pages)
    \/ \E s \in Seeders : SeedUpsert(s)
    \/ \E s \in Seeders : SeedCommit(s)
    \/ \E c \in Campaigns : NextStart("a1", None, c, 1)
    \/ \E a \in Agents : NextPick(a)
    \/ \E a \in Agents : NextLock(a)

\* next_contact called again and again, with time kept relative to now: the
\* clock stands at RelNow and the passing of one unit moves every locked_at one
\* unit into the past, down to 0, which stands for every instant more than
\* the greatest lock_ttl_sec ago.  The bookkeeping of leases is left out, so
\* that a queue that returns to an earlier content is the same state.
RelNow == MaxClock + 1

\* One unit of time passes between two requests.
RelTick ==
    /\ \A a \in Agents : calls[a].pc \in {"idle", "done"}
    /\ \E i \in 1..Len(queue) : queue[i].locked_at # None /\ queue[i].locked_at.v > 0
    /\ queue' = [i \in 1..Len(queue) |->
                    IF queue[i].locked_at # None /\ queue[i].locked_at.v > 0
                    THEN [queue[i] EXCEPT !.locked_at = Some(@.v - 1)]
                    ELSE queue[i]]
    /\ UNCHANGED <<clock, calls, ncalls, probeVars, webhookVars, seedVars, phoneVars, containsVars, searchVars, scanVars, kixieVars, resolveVars, historyVars, installVars, fieldsVars, postVars, idemVars, twoStageVars>>

\* next_contact: tenant, now, and the query for expired locks of the tenant.
RelStart(a, businessid, campaign, lock_ttl_sec) ==
    /\ calls[a].pc \in {"idle", "done"}
    /\ LET tenant == dialer_find_tenant(businessid)
           now == clock
           ttl_cutoff == now - lock_ttl_sec
           expired == {i \in 1..Len(queue) :
                          /\ queue[i].tenant_id = tenant.id
                          /\ queue[i].status = "locked"
                          /\ queue[i].locked_at.v < ttl_cutoff}
       IN /\ tenant # None
          /\ calls' = [calls EXCEPT ![a] =
                [IdleCall EXCEPT !.pc = IF expired # {} THEN "reclaim" ELSE "pick",
                                 !.tenant_id = tenant.id, !.campaign = campaign,
                                 !.lock_ttl_sec = lock_ttl_sec, !.now = now,
                                 !.expired = expired]]
    /\ UNCHANGED <<queue, clock, ncalls, probeVars, webhookVars, seedVars, phoneVars, containsVars, searchVars, scanVars, kixieVars, resolveVars, historyVars, installVars, fieldsVars, postVars, idemVars, twoStageVars>>

\* for r in expired: r.status = "pending"; r.locked_by = None; r.locked_at = None
RelReclaim(a) ==
    /\ calls[a].pc = "reclaim"
    /\ queue' = [i \in 1..Len(queue) |->
                    IF i \in calls[a].expired
                    THEN [queue[i] EXCEPT !.status = "pending", !.locked_by = None,
                                          !.locked_at = None]
                    ELSE queue[i]]
    /\ calls' = [calls EXCEPT ![a].pc = "pick", ![a].expired = {}]
    /\ UNCHANGED <<clock, ncalls, probeVars, webhookVars, seedVars, phoneVars, containsVars, searchVars, scanVars, kixieVars, resolveVars, historyVars, installVars, fieldsVars, postVars, idemVars, twoStageVars>>

\* item.status = "locked"; item.locked_by = agent; item.locked_at = now
RelLock(a) ==
    /\ calls[a].pc = "lock"
    /\ LET c == calls[a]
       IN /\ queue' = [queue EXCEPT ![c.item] =
                          [@ EXCEPT !.status = "locked", !.locked_by = Some(a),
                                    !.locked_at = Some(c.now)]]
          /\ calls' = [calls EXCEPT ![a] = [IdleCall EXCEPT !.pc = "done",
                          !.result = [code |-> 200, id |-> c.item,
                                      contact_key |-> queue[c.item].object_key]]]
    /\ UNCHANGED <<clock, ncalls, probeVars, webhookVars, seedVars, phoneVars, containsVars, searchVars, scanVars, kixieVars, resolveVars, historyVars, installVars, fieldsVars, postVars, idemVars, twoStageVars>>

\* The calls of one agent for the campaign-less queue of tenant 2.
RelCall(a) ==
    \/ \E t \in LockTtls : RelStart(a, Some("biz2"), None, t)
    \/ RelReclaim(a)
    \/ NextPick(a)
    \/ RelLock(a)

RepeatNext ==
    \/ RelTick
    \/ \E t \in LockTtls : RelStart("a1", Some("biz2"), None, t)
    \/ RelReclaim("a1")
    \/ NextPick("a1")
    \/ RelLock("a1")

\* The business ids of the two tenants.
TenantBusinessIds == {Some("biz1"), Some("biz2")}

\* Seeds of one item by two clients and the next_contact calls of one agent,
\* each for one of the two tenants.
TenantsNext ==
    \/ Tick
    \/ \E s \in Seeders, b \in TenantBusinessIds, c \in Campaigns :
          SeedRequest(s, "bulk", b, c, << <<SeedItem(Some("k1"), TRUE, "Ann", FALSE)>> >>)
    \/ \E s \in Seeders, b \in TenantBusinessIds, c \in Campaigns :
          SeedRequest(s, "sync", b, c, << <<SeedItem(Some("k1"), TRUE, "Bob", FALSE)>> >>)
    \/ \E s \in Seeders : SeedUpsert(s)
    \/ \E s \in Seeders : SeedCommit(s)
    \/ \E b \in TenantBusinessIds, c \in Campaigns : NextStart("a1", b, c, 1)
    \/ \E a \in Agents : NextReclaim(a)
    \/ \E a \in Agents : NextPick(a)
    \/ \E a \in Agents : NextLock(a)

\* The seeds of the pick-order runs: two contacts in the campaign-less queue
\* and one in campaign "c1".
LeaseSeeds == {<<None, "k1">>, <<None, "k2">>, <<Some("c1"), "k1">>}

\* Seeds and the next_contact calls of one agent, one after the other, over
\* several rows of one queue (SpecQueue has the racing calls).
LeaseNext ==
    \/ Tick
    \/ \E s \in LeaseSeeds : BulkSeed(None, s[1], s[2], "Ann")
    \/ \E c \in Campaigns, t \in LockTtls : NextStart("a1", None, c, t)
    \/ \E a \in Agents : NextReclaim(a)
    \/ \E a \in Agents : NextPick(a)
    \/ \E a \in Agents : NextLock(a)

(***************************************************************************)
(* Phone normalization: normalize_phone_e164ish and digits_only of         *)
(* app/services/realnex_api.py, normalize_e164 of app/routes/dailer.py.    *)
(* A string is a sequence of one-character strings.                        *)
(***************************************************************************)

\* Bound: the number of digits of a drawn phone string.
MaxDigits == 11

IsDigit(c) == c \in {"0", "1", "2", "3", "4", "5", "6", "7", "8", "9"}
IsSpace(c) == c \in {" "}

\* re.sub(r"\D+", "", s) and re.sub(r"[^\d]", "", s): the runs of non-digits removed.
RECURSIVE StripNonDigits(_)
StripNonDigits(s) ==
    IF s = <<>> THEN <<>>
    ELSE IF IsDigit(Head(s)) THEN <<Head(s)>> \o StripNonDigits(Tail(s))
    ELSE StripNonDigits(Tail(s))

\* str.strip(): leading and trailing whitespace removed.
RECURSIVE LStrip(_)
LStrip(s) == IF s # <<>> /\ IsSpace(Head(s)) THEN LStrip(Tail(s)) ELSE s

RECURSIVE RStrip(_)
RStrip(s) == IF s # <<>> /\ IsSpace(s[Len(s)]) THEN RStrip(SubSeq(s, 1, Len(s) - 1)) ELSE s

Strip(s) == RStrip(LStrip(s))

\* A normalization that prefixes the country code whatever the digit count.
normalize_always_country_code(raw) ==
    IF raw = None \/ raw = Some(<<>>) THEN None
    ELSE LET digits == StripNonDigits(raw.v)
         IN IF digits = <<>> THEN None ELSE Some(<<"+", "1">> \o digits)

\* A normalization without the ten-digit rule.
normalize_no_country_code(raw) ==
    IF raw = None \/ raw = Some(<<>>) THEN None
    ELSE LET digits == StripNonDigits(raw.v)
         IN IF digits = <<>> THEN None ELSE Some(<<"+">> \o digits)

normalize_phone_e164ish(raw) ==
    IF raw = None \/ raw = Some(<<>>) THEN None
    ELSE LET digits == StripNonDigits(raw.v)
         IN IF digits = <<>> THEN None
            ELSE IF Len(digits) = 10 THEN Some(<<"+", "1">> \o digits)
            ELSE IF digits[1] = "1" /\ Len(digits) = 11 THEN Some(<<"+">> \o digits)
            ELSE IF raw.v[1] = "+" THEN Some(<<"+">> \o digits)
            ELSE Some(<<"+">> \o digits)

digits_only(raw) ==
    IF raw = None \/ raw = Some(<<>>) THEN None
    ELSE LET d == StripNonDigits(raw.v)
         IN IF d = <<>> THEN None ELSE Some(d)

\* _e164 = re.compile(r"^\+?\d[\d\-\.\s\(\)]*$") matched at the start of num
E164Match(num) ==
    LET body == IF num # <<>> /\ num[1] = "+" THEN Tail(num) ELSE num
    IN /\ body # <<>>
       /\ IsDigit(body[1])
       /\ \A i \in 2..Len(body) :
             IsDigit(body[i]) \/ IsSpace(body[i]) \/ body[i] \in {"-", ".", "(", ")"}

normalize_e164(raw) ==
    IF raw = None \/ raw = Some(<<>>) THEN None
    ELSE LET num == Strip(raw.v)
             digits == StripNonDigits(num)
         IN IF ~E164Match(num) THEN None
            ELSE IF digits = <<>> THEN None
            ELSE IF digits[1] = "1" /\ Len(digits) = 11 THEN Some(<<"+">> \o digits)
            ELSE IF Len(digits) = 10 THEN Some(<<"+", "1">> \o digits)
            ELSE IF num[1] = "+" THEN Some(<<"+">> \o digits)
            ELSE Some(<<"+">> \o digits)

\* "(858) 458-1063"
ExamplePhone ==
    <<"(", "8", "5", "8", ")", " ", "4", "5", "8", "-", "1", "0", "6", "3">>

\* The phone strings drawn: n digits led by 1 or 8, written plain, with a dash
\* and a dot, or with an extension letter, after nothing, "+", "(" or a blank.
PhoneDigits(lead, n) == [i \in 1..n |-> IF i = 1 THEN lead ELSE IF i % 2 = 0 THEN "5" ELSE "3"]

Styled(style, d) ==
    IF style = "dash" /\ Len(d) > 3
    THEN SubSeq(d, 1, 3) \o <<"-">> \o SubSeq(d, 4, Len(d)) \o <<".">>
    ELSE IF style = "ext" THEN d \o <<"x", "7">>
    ELSE d

RawPhones ==
    {None, Some(ExamplePhone)} \cup
    { Some(pre \o Styled(style, PhoneDigits(lead, n)) \o post) :
        pre \in {<<>>, <<"+">>, <<"(">>, <<" ">>}, style \in {"plain", "dash", "ext"},
        lead \in {"1", "8"}, n \in 0..MaxDigits, post \in {<<>>, <<" ">>} }

NoPhone == [pc |-> "idle", raw |-> None, e164ish |-> None, digits |-> None,
            e164 |-> None, e164ish2 |-> None, e164_2 |-> None]

\* The two normalizations and digits_only applied to the raw string.
NormalizeRaw ==
    /\ ph.pc = "raw"
    /\ ph' = [ph EXCEPT !.pc = "once",
                        !.e164ish = normalize_phone_e164ish(ph.raw),
                        !.digits = digits_only(ph.raw),
                        !.e164 = normalize_e164(ph.raw)]
    /\ UNCHANGED <<probeVars, webhookVars, queueVars, seedVars, containsVars, searchVars, scanVars, kixieVars, resolveVars, historyVars, installVars, fieldsVars, postVars, idemVars, twoStageVars>>

\* Each normalization applied to its own output.
NormalizeAgain ==
    /\ ph.pc = "once"
    /\ ph' = [ph EXCEPT !.pc = "twice",
                        !.e164ish2 = normalize_phone_e164ish(ph.e164ish),
                        !.e164_2 = normalize_e164(ph.e164)]
    /\ UNCHANGED <<probeVars, webhookVars, queueVars, seedVars, containsVars, searchVars, scanVars, kixieVars, resolveVars, historyVars, installVars, fieldsVars, postVars, idemVars, twoStageVars>>

PhoneNext == NormalizeRaw \/ NormalizeAgain

(***************************************************************************)
(* Server-side attribute filter: _odata_try_contains and                   *)
(* _odata_field_supports_contains of app/services/realnex_api.py.          *)
(***************************************************************************)

\* Bounds: validated phone fields handed to the filter, OData bases in BASES.
MaxFields == 2
MaxODataBases == 2

PhoneFields == {"Mobile", "Phone"}

\* What the CRM does with one contains() probe.
ProbeAnswers == {"ok", "rejected", "transport"}

\* A field probed without the cast probe.
SupportsContainsRawOnly(ans) ==
    IF \E b \in 1..Len(ans) : ans[b].raw = "ok" THEN <<TRUE, FALSE>> ELSE <<FALSE, FALSE>>

\* _odata_field_supports_contains: per OData base the raw contains() probe, then
\* the probe with cast(field,'Edm.String'); the first probe answered below 400
\* decides (works_without_cast, works_with_cast); a transport error is passed over.
RECURSIVE SupportsContains(_)
SupportsContains(ans) ==
    IF ans = <<>> THEN <<FALSE, FALSE>>
    ELSE IF Head(ans).raw = "ok" THEN <<TRUE, FALSE>>
    ELSE IF Head(ans).cast = "ok" THEN <<FALSE, TRUE>>
    ELSE SupportsContains(Tail(ans))

\* f"contains(cast({f},'Edm.String'),'{digits}')" or f"contains({f},'{digits}')"
ContainsPart(f, cast) == [field |-> f, cast |-> cast]

\* What _try_paths returns for the filter request.
FilterResults ==
    { [status |-> 200, rows |-> 1], [status |-> 200, rows |-> 0], [status |-> 400, rows |-> 0],
      [status |-> 404, rows |-> 0], [status |-> 599, rows |-> 0] }

NoFilterableFields == [status |-> 404, error |-> "no_filterable_phone_fields"]

NoContains ==
    [pc |-> "idle", nb |-> 0, fields |-> <<>>, i |-> 0, accepted |-> <<>>,
     usable |-> <<>>, cast_map |-> {}, filter |-> None, result |-> None]

\* for f in fields: one field probed on every OData base; a usable field is
\* appended and its need for the cast noted.
ContainsProbeField ==
    /\ tc.pc = "probe"
    /\ \E ans \in [1..tc.nb -> [raw : ProbeAnswers, cast : ProbeAnswers]] :
          LET f == tc.fields[tc.i]
              ok == SupportsContains(ans)
              raw_ok == ok[1]
              cast_ok == ok[2]
          IN tc' = [tc EXCEPT
                !.i = @ + 1,
                !.pc = IF tc.i = Len(tc.fields) THEN "send" ELSE "probe",
                !.accepted = Append(@, \E b \in 1..tc.nb : ans[b].raw = "ok" \/ ans[b].cast = "ok"),
                !.usable = IF raw_ok \/ cast_ok THEN Append(@, f) ELSE @,
                !.cast_map = IF raw_ok \/ cast_ok
                             THEN (@ \ {f}) \cup (IF cast_ok /\ ~raw_ok THEN {f} ELSE {})
                             ELSE @]
    /\ UNCHANGED <<probeVars, webhookVars, queueVars, seedVars, phoneVars, searchVars, scanVars, kixieVars, resolveVars, historyVars, installVars, fieldsVars, postVars, idemVars, twoStageVars>>

\* After the loop: 404 no_filterable_phone_fields without a request when no
\* field is usable, else the OR filter over the usable fields through _try_paths.
ContainsSendFilter ==
    /\ tc.pc = "send"
    /\ IF tc.usable = <<>>
       THEN tc' = [tc EXCEPT !.pc = "done", !.result = NoFilterableFields]
       ELSE \E r \in FilterResults :
               tc' = [tc EXCEPT !.pc = "done",
                         !.filter = Some([k \in 1..Len(tc.usable) |->
                                        ContainsPart(tc.usable[k], tc.usable[k] \in tc.cast_map)]),
                         !.result = r]
    /\ UNCHANGED <<probeVars, webhookVars, queueVars, seedVars, phoneVars, searchVars, scanVars, kixieVars, resolveVars, historyVars, installVars, fieldsVars, postVars, idemVars, twoStageVars>>

ContainsNext == ContainsProbeField \/ ContainsSendFilter

(***************************************************************************)
(* Contact search by phone: _find_existing_contact_key (called by          *)
(* kixie_webhook) and contacts_search of app/routes/dialer.py, over        *)
(* search_by_phone, search_contact_keys_by_phone_two_stage and             *)
(* odata_contacts_filter_by_digits of app/services/realnex_api.py.  A call *)
(* is cut at its awaited CRM operations; sr.log lists them as they are     *)
(* invoked.                                                                *)
(***************************************************************************)

SearchEntries == {"find", "contacts_search", "auto"}

\* Phone inputs: none, empty, no digit, 5 and 6 digits, 10 digits, 11 digits.
SearchPhones ==
    { None, Some(<<>>), Some(<<"n", "a">>), Some(PhoneDigits("1", 5)),
      Some(<<"8", "5", "8", "-", "4", "5", "8">>), Some(ExamplePhone),
      Some(<<"+">> \o PhoneDigits("1", 11)) }

\* What search_by_phone returns: a 2xx with rows that carry a string key, an
\* integer key, no key, or no rows; or crm_search_failed with the status of
\* _try_paths.
Tier1Answers ==
    { [status |-> 200, rows |-> "key"], [status |-> 200, rows |-> "intkey"],
      [status |-> 200, rows |-> "nokey"], [status |-> 200, rows |-> "empty"],
      [status |-> 400, rows |-> "empty"], [status |-> 404, rows |-> "empty"],
      [status |-> 500, rows |-> "empty"], [status |-> 599, rows |-> "empty"] }

Is2xx(status) == status \div 100 = 2

\* The key the caller's loops over rows and key names extract from the answer:
\* a non-empty string for the two routes, any truthy value for
\* search_contact_key_by_phone_auto.
Tier1Key(entry, a) ==
    IF ~Is2xx(a.status) THEN None
    ELSE IF a.rows = "key" THEN Some("ck1")
    ELSE IF a.rows = "intkey" /\ entry = "auto" THEN Some("ck1")
    ELSE None

\* A caller that takes every non-2xx answer of tier 1 for "not found".
ReturnsAfterTier1OrFailure(entry, a) ==
    \/ ~Is2xx(a.status)
    \/ IF entry = "contacts_search" THEN Is2xx(a.status) ELSE Tier1Key(entry, a) # None

\* Whether the caller returns on the answer of tier 1: contacts_search on any
\* 2xx, the other two when they extracted a key.
ReturnsAfterTier1(entry, a) ==
    IF entry = "contacts_search" THEN Is2xx(a.status) ELSE Tier1Key(entry, a) # None

\* odata_contacts_filter_by_digits: the page scan runs unless the filter
\* answered 2xx with rows.
ScanAfterFilter(tried) == ~(Is2xx(tried.status) /\ tried.rows > 0)

\* The results of _odata_try_contains for a field list of n fields.
TryContainsResults(n) ==
    IF n = 0 THEN {[status |-> 404, rows |-> 0]}
    ELSE FilterResults \cup {[status |-> 404, rows |-> 0]}

\* _odata_scan_pages: one matching row, or scan_no_match.
ScanResults == { [status |-> 200, rows |-> 1], [status |-> 404, rows |-> 0] }

\* One awaited CRM operation and whether it gave its caller a match.
Called(op, hit) == [op |-> op, hit |-> hit]

NoSearch ==
    [pc |-> "idle", entry |-> "", raw |-> None, e164 |-> None, phone2 |-> None,
     stage |-> 1, log |-> <<>>, t1 |-> None, nfields |-> 0, wide |-> None,
     result |-> None]

\* What the callers report: the key or None, and where it came from.
SearchResult(status, source, key) == [status |-> status, source |-> source, key |-> key]

\* Entry of the call: _find_existing_contact_key returns None for no number or
\* no digit; contacts_search answers 400 phone_too_short below 11 digits;
\* search_contact_key_by_phone_auto searches whatever it was given.
SearchValidate ==
    /\ sr.pc = "start"
    /\ LET e164 == normalize_phone_e164ish(sr.raw)
           d == digits_only(e164)
       IN CASE sr.entry = "find" ->
                 IF e164 = None
                 THEN sr' = [sr EXCEPT !.pc = "done",
                                !.result = SearchResult(404, "none", None)]
                 ELSE sr' = [sr EXCEPT !.pc = "tier1", !.e164 = e164, !.phone2 = e164]
            [] sr.entry = "contacts_search" ->
                 IF (IF d = None THEN 0 ELSE Len(d.v)) < 11
                 THEN sr' = [sr EXCEPT !.pc = "done",
                                !.result = SearchResult(400, "phone_too_short", None)]
                 ELSE sr' = [sr EXCEPT !.pc = "tier1", !.e164 = e164, !.phone2 = sr.raw]
            [] sr.entry = "auto" ->
                 LET p == IF e164 = None THEN sr.raw ELSE e164
                 IN sr' = [sr EXCEPT !.pc = "tier1", !.e164 = p, !.phone2 = p]
    /\ UNCHANGED <<probeVars, webhookVars, queueVars, seedVars, phoneVars, containsVars, scanVars, kixieVars, resolveVars, historyVars, installVars, fieldsVars, postVars, idemVars, twoStageVars>>

\* Tier 1: search_by_phone, and the caller's use of its answer.
SearchTier1 ==
    /\ sr.pc = "tier1"
    /\ \E a \in Tier1Answers :
          sr' = [sr EXCEPT
                !.log = Append(@, Called("search_by_phone", Tier1Key(sr.entry, a) # None)),
                !.t1 = Some(a),
                !.pc = IF ReturnsAfterTier1(sr.entry, a) THEN "done" ELSE "two_stage",
                !.result = IF ReturnsAfterTier1(sr.entry, a)
                           THEN SearchResult(200, "crm_search", Tier1Key(sr.entry, a))
                           ELSE None]
    /\ UNCHANGED <<probeVars, webhookVars, queueVars, seedVars, phoneVars, containsVars, scanVars, kixieVars, resolveVars, historyVars, installVars, fieldsVars, postVars, idemVars, twoStageVars>>

\* search_contact_keys_by_phone_two_stage: digits of the phone, then the probe of
\* the phone fields.
SearchProbeFields ==
    /\ sr.pc = "two_stage"
    /\ IF digits_only(sr.phone2) = None
       THEN sr' = [sr EXCEPT !.pc = "finish", !.wide = Some([status |-> 400, key |-> None])]
       ELSE \E n \in 0..MaxFields :
               sr' = [sr EXCEPT !.pc = "filter", !.nfields = n,
                         !.log = Append(@, Called("probe_odata_phone_fields", FALSE))]
    /\ UNCHANGED <<probeVars, webhookVars, queueVars, seedVars, phoneVars, containsVars, scanVars, kixieVars, resolveVars, historyVars, installVars, fieldsVars, postVars, idemVars, twoStageVars>>

\* search_contact_by_phone_wide, the last step of
\* search_contact_key_by_phone_auto: digits, the probe of the phone fields, and
\* no filter when no field is valid.
SearchWide ==
    /\ sr.pc = "wide"
    /\ IF digits_only(sr.phone2) = None
       THEN sr' = [sr EXCEPT !.pc = "finish", !.wide = Some([status |-> 400, key |-> None])]
       ELSE \E n \in 0..MaxFields :
               sr' = [sr EXCEPT !.nfields = n,
                         !.log = Append(@, Called("probe_odata_phone_fields", FALSE)),
                         !.pc = IF n = 0 THEN "finish" ELSE "filter",
                         !.wide = IF n = 0 THEN Some([status |-> 404, key |-> None]) ELSE @]
    /\ UNCHANGED <<probeVars, webhookVars, queueVars, seedVars, phoneVars, containsVars, scanVars, kixieVars, resolveVars, historyVars, installVars, fieldsVars, postVars, idemVars, twoStageVars>>

\* odata_contacts_filter_by_digits, tier 2: _odata_try_contains.  Its rows go
\* to the verification in the two-stage search and are the answer of the wide
\* search.
SearchFilter ==
    /\ sr.pc = "filter"
    /\ \E t \in TryContainsResults(sr.nfields) :
          sr' = [sr EXCEPT
                !.log = Append(@, Called("_odata_try_contains", ~ScanAfterFilter(t))),
                !.pc = IF ScanAfterFilter(t) THEN "scan"
                       ELSE IF sr.stage = 1 THEN "verify" ELSE "finish",
                !.wide = IF ~ScanAfterFilter(t) /\ sr.stage = 2
                         THEN Some([status |-> 200, key |-> Some("ck2")]) ELSE @]
    /\ UNCHANGED <<probeVars, webhookVars, queueVars, seedVars, phoneVars, containsVars, scanVars, kixieVars, resolveVars, historyVars, installVars, fieldsVars, postVars, idemVars, twoStageVars>>

\* odata_contacts_filter_by_digits, tier 3: _odata_scan_pages.
SearchScan ==
    /\ sr.pc = "scan"
    /\ \E r \in ScanResults :
          sr' = [sr EXCEPT
                !.log = Append(@, Called("_odata_scan_pages", Is2xx(r.status))),
                !.pc = IF Is2xx(r.status) /\ sr.stage = 1 THEN "verify" ELSE "finish",
                !.wide = IF ~Is2xx(r.status) THEN Some([status |-> 404, key |-> None])
                         ELSE IF sr.stage = 2 THEN Some([status |-> 200, key |-> Some("ck2")])
                         ELSE @]
    /\ UNCHANGED <<probeVars, webhookVars, queueVars, seedVars, phoneVars, containsVars, scanVars, kixieVars, resolveVars, historyVars, installVars, fieldsVars, postVars, idemVars, twoStageVars>>

\* Two-stage verification: get_contact of the candidate key; the key stands when
\* the answer is 2xx and a phone-like attribute holds the digits.
SearchVerify ==
    /\ sr.pc = "verify"
    /\ \E verified \in BOOLEAN :
          sr' = [sr EXCEPT !.log = Append(@, Called("get_contact", verified)),
                    !.pc = "finish",
                    !.wide = Some(IF verified THEN [status |-> 200, key |-> Some("ck2")]
                                  ELSE [status |-> 404, key |-> None])]
    /\ UNCHANGED <<probeVars, webhookVars, queueVars, seedVars, phoneVars, containsVars, scanVars, kixieVars, resolveVars, historyVars, installVars, fieldsVars, postVars, idemVars, twoStageVars>>

\* The caller's use of the result: a verified key is returned; without one the
\* two routes report no match, and search_contact_key_by_phone_auto goes on to
\* the wide search and returns what that finds.
SearchFinish ==
    /\ sr.pc = "finish"
    /\ LET w == sr.wide.v
           hit == Is2xx(w.status) /\ w.key # None
       IN IF hit
          THEN sr' = [sr EXCEPT !.pc = "done",
                         !.result = SearchResult(200, IF sr.stage = 1 THEN "odata_two_stage"
                                                      ELSE "odata_wide", w.key)]
          ELSE IF sr.entry = "auto" /\ sr.stage = 1
          THEN sr' = [sr EXCEPT !.pc = "wide", !.stage = 2, !.wide = None]
          ELSE sr' = [sr EXCEPT !.pc = "done",
                         !.result = SearchResult(404, "no_contact_match", None)]
    /\ UNCHANGED <<probeVars, webhookVars, queueVars, seedVars, phoneVars, containsVars, scanVars, kixieVars, resolveVars, historyVars, installVars, fieldsVars, postVars, idemVars, twoStageVars>>

SearchNext ==
    \/ SearchValidate
    \/ SearchTier1
    \/ SearchProbeFields
    \/ SearchWide
    \/ SearchFilter
    \/ SearchScan
    \/ SearchVerify
    \/ SearchFinish

(***************************************************************************)
(* _odata_scan_pages of app/services/realnex_api.py: the client-side page  *)
(* scan.  One step is one page request and what the loop does with its     *)
(* answer.  The OData bases are numbered 1..nb in the order of BASES; the  *)
(* one collection is "Contacts".                                           *)
(***************************************************************************)

PageTop == 2
MaxScanPages == 2

\* What a page request can give: an HTTP status of 400 or more, a transport
\* error, or a 2xx page of `rows` rows of which row `match` is the first one
\* holding the digits in one of the fields (0: none does).
PageAnswers(has_fields) ==
    {[kind |-> "status_error", rows |-> 0, match |-> 0],
     [kind |-> "transport", rows |-> 0, match |-> 0]}
    \cup {a \in [kind : {"page"}, rows : 0..PageTop, match : 0..PageTop] :
            a.match <= a.rows /\ (has_fields \/ a.match = 0)}

\* A loop body that goes on to the next page after a short page.
PageOutcomeNoShortStop(a) ==
    IF a.kind # "page" \/ a.rows = 0 THEN "break"
    ELSE IF a.match > 0 THEN "return"
    ELSE "continue"

\* The loop body on one answer: break on a status >= 400, on httpx.HTTPError,
\* on no rows; return at the first matching row; break on a short page;
\* otherwise go on to the next page.
PageOutcome(a) ==
    IF a.kind # "page" \/ a.rows = 0 THEN "break"
    ELSE IF a.match > 0 THEN "return"
    ELSE IF a.rows < PageTop THEN "break"
    ELSE "continue"

NoScan ==
    [pc |-> "idle", nb |-> 0, has_fields |-> FALSE, base |-> 0, page |-> 0, skip |-> 0,
     requests |-> <<>>, result |-> None]

\* One iteration of `for _ in range(max_pages)`: GET base/Contacts with
\* $top = page_top and $skip = skip.
ScanPage ==
    /\ sp.pc = "scan" /\ sp.base <= sp.nb
    /\ \E a \in PageAnswers(sp.has_fields) :
          LET req == [base |-> sp.base, top |-> PageTop, skip |-> sp.skip, answer |-> a]
              out == PageOutcome(a)
              last_page == sp.page + 1 = MaxScanPages
          IN sp' = [sp EXCEPT
                   !.requests = Append(@, req),
                   !.pc = IF out = "return" THEN "done" ELSE @,
                   !.result = IF out = "return"
                              THEN Some([status |-> 200, method |-> "scan",
                                         value |-> <<[base |-> sp.base,
                                                      row |-> sp.skip + a.match]>>])
                              ELSE @,
                   !.base = IF out = "break" \/ (out = "continue" /\ last_page)
                            THEN @ + 1 ELSE @,
                   !.page = IF out = "continue" /\ ~last_page THEN @ + 1
                            ELSE IF out = "return" THEN @ ELSE 0,
                   !.skip = IF out = "continue" /\ ~last_page THEN @ + PageTop
                            ELSE IF out = "return" THEN @ ELSE 0]
    /\ UNCHANGED <<probeVars, webhookVars, queueVars, seedVars, phoneVars, containsVars, searchVars, kixieVars, resolveVars, historyVars, installVars, fieldsVars, postVars, idemVars, twoStageVars>>

\* The loops over the bases are exhausted: scan_no_match.
ScanNoMatch ==
    /\ sp.pc = "scan" /\ sp.base > sp.nb
    /\ sp' = [sp EXCEPT !.pc = "done",
                 !.result = Some([status |-> 404, method |-> "scan_no_match", value |-> <<>>])]
    /\ UNCHANGED <<probeVars, webhookVars, queueVars, seedVars, phoneVars, containsVars, searchVars, kixieVars, resolveVars, historyVars, installVars, fieldsVars, postVars, idemVars, twoStageVars>>

ScanNext ==
    \/ ScanPage
    \/ ScanNoMatch

(***************************************************************************)
(* kixie_webhook of app/routes/dialer.py (POST /webhooks/kixie): signature *)
(* check, token, optional timezone check, lookup of an existing contact by *)
(* _find_existing_contact_key (the search steps above, entry "find"), one  *)
(* history write, optional attachment.  kw.ops lists the CRM operations    *)
(* in the order issued.                                                    *)
(***************************************************************************)

\* hmac.new(secret, raw, sha256).hexdigest(), taken to be collision-free: the
\* digest stands for the pair it was computed from.
HmacHex(secret, raw) == "hmac-sha256(" \o secret \o "," \o raw \o ")"

\* KIXIE_WEBHOOK_SECRET: unset, or set.
KixieSecrets == {None, Some("k1")}

\* The signature header of a delivery of body "b1": absent, empty, the secret
\* itself, the digest of the body under the secret, under another secret, or
\* of another body.
SignatureHeaders ==
    {None, Some(""), Some("k1"), Some(HmacHex("k1", "b1")), Some(HmacHex("k2", "b1")),
     Some(HmacHex("k1", "b2"))}

\* _verify_kixie_signature: no-op without a secret; 401 on a missing (or empty)
\* header and on a header that is not the digest of the raw body.
_verify_kixie_signature(secret, raw, header_sig) ==
    IF secret = None THEN "pass"
    ELSE IF header_sig = None \/ header_sig = Some("") THEN "Missing signature"
    ELSE IF header_sig.v # HmacHex(secret.v, raw) THEN "Invalid signature"
    ELSE "pass"

\* payload.to_number if (payload.direction or "outbound") == "outbound" else
\* payload.from_number
TargetNumber(direction, to_number, from_number) ==
    IF direction = "outbound" THEN to_number ELSE from_number

KixieNumbers == {None, Some(PhoneDigits("1", 5)), Some(ExamplePhone)}

\* What create_history returns: the status of _try_paths.
HistoryStatuses == {200, 400, 404, 599}

\* A handler that writes the history whether or not a contact was found.
HistoryAlways(contact_key) == TRUE

\* `if not contact_key: return {status: 202, skipped: True, ...}`
HistoryAllowed(contact_key) == contact_key # None

NoKixie ==
    [pc |-> "idle", secret |-> None, header_sig |-> None, token |-> FALSE,
     x_user_tz |-> FALSE, attach |-> FALSE, target_number |-> None,
     ops |-> <<>>, contact_key |-> None, resp |-> None]

\* kixie_webhook up to its first CRM call.
KixieVerify ==
    /\ kw.pc = "start"
    /\ LET v == _verify_kixie_signature(kw.secret, "b1", kw.header_sig)
       IN kw' = IF v # "pass"
                THEN [kw EXCEPT !.pc = "done", !.resp = Some([code |-> 401, detail |-> v])]
                ELSE IF ~kw.token
                THEN [kw EXCEPT !.pc = "done",
                         !.resp = Some([code |-> 401,
                                        detail |-> "REALNEX_JWT/REALNEX_TOKEN not configured"])]
                ELSE [kw EXCEPT !.pc = IF kw.x_user_tz THEN "tz" ELSE "lookup"]
    /\ UNCHANGED <<probeVars, webhookVars, queueVars, seedVars, phoneVars, containsVars, searchVars, scanVars, resolveVars, historyVars, installVars, fieldsVars, postVars, idemVars, twoStageVars>>

\* await is_valid_timezone(token, x_user_tz): one list_timezones; whatever it
\* answers, the handler goes on.
KixieTimezone ==
    /\ kw.pc = "tz"
    /\ kw' = [kw EXCEPT !.pc = "lookup", !.ops = Append(@, "list_timezones")]
    /\ UNCHANGED <<probeVars, webhookVars, queueVars, seedVars, phoneVars, containsVars, searchVars, scanVars, resolveVars, historyVars, installVars, fieldsVars, postVars, idemVars, twoStageVars>>

\* await _find_existing_contact_key(token, target_number): the call starts.
KixieLookup ==
    /\ kw.pc = "lookup"
    /\ kw' = [kw EXCEPT !.pc = "searching"]
    /\ sr' = [NoSearch EXCEPT !.pc = "start", !.entry = "find", !.raw = kw.target_number]
    /\ UNCHANGED <<probeVars, webhookVars, queueVars, seedVars, phoneVars, containsVars, scanVars, resolveVars, historyVars, installVars, fieldsVars, postVars, idemVars, twoStageVars>>

\* _find_existing_contact_key returned: 202 skipped without a key, else on to
\* the history write.
KixieAfterLookup ==
    /\ kw.pc = "searching" /\ sr.pc = "done"
    /\ LET contact_key == sr.result.key
           ops == kw.ops \o [i \in 1..Len(sr.log) |-> sr.log[i].op]
       IN kw' = IF HistoryAllowed(contact_key)
                THEN [kw EXCEPT !.pc = "history", !.ops = ops, !.contact_key = contact_key]
                ELSE [kw EXCEPT !.pc = "done", !.ops = ops,
                         !.resp = Some([code |-> 200, status |-> 202, skipped |-> TRUE,
                                        contactKey |-> None])]
    /\ UNCHANGED <<probeVars, webhookVars, queueVars, seedVars, phoneVars, containsVars, searchVars, scanVars, resolveVars, historyVars, installVars, fieldsVars, postVars, idemVars, twoStageVars>>

\* rn = await create_history(token, hist): one write linked by link_field; the
\* returned dict carries the CRM's status.
KixieHistory ==
    /\ kw.pc = "history"
    /\ \E status \in HistoryStatuses :
          kw' = [kw EXCEPT !.ops = Append(@, "create_history"),
                    !.pc = IF kw.attach THEN "attach" ELSE "done",
                    !.resp = Some([code |-> 200, status |-> status, skipped |-> FALSE,
                                   contactKey |-> kw.contact_key])]
    /\ UNCHANGED <<probeVars, webhookVars, queueVars, seedVars, phoneVars, containsVars, searchVars, scanVars, resolveVars, historyVars, installVars, fieldsVars, postVars, idemVars, twoStageVars>>

\* ATTACH_RECORDING_TO_CONTACT = 1 and a recording url: attach_recording_from_url.
KixieAttach ==
    /\ kw.pc = "attach"
    /\ kw' = [kw EXCEPT !.ops = Append(@, "attach_recording_from_url"), !.pc = "done"]
    /\ UNCHANGED <<probeVars, webhookVars, queueVars, seedVars, phoneVars, containsVars, searchVars, scanVars, resolveVars, historyVars, installVars, fieldsVars, postVars, idemVars, twoStageVars>>

KixieNext ==
    \/ KixieVerify
    \/ KixieTimezone
    \/ KixieLookup
    \/ SearchValidate
    \/ SearchTier1
    \/ SearchProbeFields
    \/ SearchFilter
    \/ SearchScan
    \/ SearchVerify
    \/ SearchFinish
    \/ KixieAfterLookup
    \/ KixieHistory
    \/ KixieAttach

(***************************************************************************)
(* _find_or_create_contact of app/routes/kixie.py and of routes/kixie.py:  *)
(* the search tiers in turn, then the creation.  One step is one awaited   *)
(* CRM call and what the function does with its answer.                    *)
(***************************************************************************)

\* The two revisions of the function.
ResolveVersions == {"app", "legacy"}

\* The searches each revision awaits, in its order.
SearchTiers(version) ==
    IF version = "app"
    THEN <<"search_contact_by_phone_odata", "get_contacts", "search_any">>
    ELSE <<"get_contacts", "search_any">>

\* What a search can do: raise, or answer with the rows of "value".
FoundRow(id, entityType) == [id |-> id, entityType |-> entityType]
TierAnswers ==
    { [raised |-> TRUE, value |-> <<>>],
      [raised |-> FALSE, value |-> <<>>],
      [raised |-> FALSE, value |-> <<FoundRow("x1", "Company")>>],
      [raised |-> FALSE, value |-> <<FoundRow("x1", "Contact")>>],
      [raised |-> FALSE, value |-> <<FoundRow("x1", "Company"), FoundRow("x2", "Contact")>>],
      [raised |-> FALSE, value |-> <<FoundRow("x1", "Contact"), FoundRow("x2", "Contact")>>] }

\* candidates after a search: [] when it raised; res["value"], which search_any
\* filters to the rows whose entityType names a contact.
TierCandidates(op, a) ==
    IF a.raised THEN <<>>
    ELSE IF op = "search_any" THEN SelectSeq(a.value, LAMBDA x : x.entityType = "Contact")
    ELSE a.value

\* What the creation can do: raise, answer with a dict, or with something else.
CreateAnswers == {"raised", "dict", "not_dict"}

\* A function that creates a contact whatever the searches found.
ShouldCreateAlways(candidates) == TRUE

\* `if not candidates:` before create_contact_by_number / create_contact.
ShouldCreate(candidates) == candidates = <<>>

NoResolve ==
    [pc |-> "idle", version |-> "", tier |-> 0, calls |-> <<>>, candidates |-> <<>>,
     result |-> None]

\* One search tier, skipped over when an earlier tier left candidates.
ResolveSearch ==
    /\ rc.pc = "search"
    /\ LET op == SearchTiers(rc.version)[rc.tier]
           last == rc.tier = Len(SearchTiers(rc.version))
       IN \E a \in TierAnswers :
             LET cands == TierCandidates(op, a)
                 go_on == cands = <<>>
             IN rc' = [rc EXCEPT
                      !.calls = Append(@, [op |-> op, answer |-> a]),
                      !.candidates = cands,
                      !.tier = IF go_on /\ ~last THEN @ + 1 ELSE @,
                      !.pc = IF go_on /\ ~last THEN "search"
                             ELSE IF ShouldCreate(cands) THEN "create" ELSE "done",
                      !.result = IF ShouldCreate(cands) THEN None ELSE Some(cands[1])]
    /\ UNCHANGED <<probeVars, webhookVars, queueVars, seedVars, phoneVars, containsVars, searchVars, scanVars, kixieVars, historyVars, installVars, fieldsVars, postVars, idemVars, twoStageVars>>

\* The creation: create_contact_by_number (app) or create_contact (legacy); an
\* exception of it leaves the function.
ResolveCreate ==
    /\ rc.pc = "create"
    /\ \E c \in CreateAnswers :
          rc' = [rc EXCEPT
                !.calls = Append(@, [op |-> IF rc.version = "app" THEN "create_contact_by_number"
                                            ELSE "create_contact",
                                     answer |-> [raised |-> c = "raised", value |-> <<>>]]),
                !.pc = "done",
                !.result = IF c = "raised" THEN Some([raised |-> TRUE])
                           ELSE IF c = "dict" THEN Some(FoundRow("new", "Contact"))
                           ELSE IF rc.version = "app" THEN Some([empty |-> TRUE])
                           ELSE Some([not_dict |-> TRUE])]
    /\ UNCHANGED <<probeVars, webhookVars, queueVars, seedVars, phoneVars, containsVars, searchVars, scanVars, kixieVars, historyVars, installVars, fieldsVars, postVars, idemVars, twoStageVars>>

ResolveNext ==
    \/ ResolveSearch
    \/ ResolveCreate

(***************************************************************************)
(* History writing: the OData write and the legacy candidates of webhooks  *)
(* (app/routes/kixie.py), the single write of kixie_webhook                *)
(* (app/routes/dialer.py).  One step is one awaited write.                 *)
(***************************************************************************)

HistoryWriters == {"webhooks", "kixie_webhook"}

\* RN_HISTORY_CONTACT_LINK_FIELD, default "contactKey".
LinkFields == {"contactKey", "ContactKey"}

\* The payloads a writer has to offer, in its order: webhooks starts with
\* create_history_odata and falls back to entityType x (entityId, entityKey);
\* kixie_webhook has the one payload linked by link_field.
HistoryCandidates(writer, link_field) ==
    IF writer = "webhooks"
    THEN <<"odata", "Contact|entityId", "Contact|entityKey", "crm.contact|entityId",
           "crm.contact|entityKey", "CrmContact|entityId", "CrmContact|entityKey">>
    ELSE <<link_field>>

\* What a write can do: answer with a status, or raise.
WriteAnswers == {[raised |-> FALSE, status |-> 201], [raised |-> FALSE, status |-> 400],
                 [raised |-> FALSE, status |-> 599], [raised |-> TRUE, status |-> 0]}

\* `r2.get("status", 500) < 400`
Accepted(a) == ~a.raised /\ a.status < 400

NoHistory ==
    [pc |-> "idle", writer |-> "", link_field |-> "", i |-> 0, attempts |-> <<>>,
     errors |-> <<>>, success |-> None, error |-> None, row |-> None, resp |-> None]

\* webhooks: one write; the loop stops at the first accepted payload, collects
\* the rejection of each legacy payload, and raises 502 with the collected
\* errors when the last one is rejected.  An exception of the write leaves the
\* try block.
HistoryAttempt ==
    /\ hw.pc = "write" /\ hw.writer = "webhooks"
    /\ LET cands == HistoryCandidates(hw.writer, hw.link_field)
           cand == cands[hw.i]
       IN \E a \in WriteAnswers :
             LET errors == IF hw.i > 1 /\ ~a.raised /\ ~Accepted(a)
                           THEN Append(hw.errors, [candidate |-> cand, status |-> a.status])
                           ELSE hw.errors
             IN hw' = [hw EXCEPT
                      !.attempts = Append(@, [candidate |-> cand, answer |-> a]),
                      !.errors = errors,
                      !.success = IF Accepted(a) THEN Some(a) ELSE @,
                      !.i = IF a.raised \/ Accepted(a) \/ hw.i = Len(cands) THEN @ ELSE @ + 1,
                      !.pc = IF a.raised \/ Accepted(a) \/ hw.i = Len(cands) THEN "log" ELSE @,
                      !.error = IF a.raised THEN Some([code |-> 0, errors |-> <<>>])
                                ELSE IF ~Accepted(a) /\ hw.i = Len(cands)
                                THEN Some([code |-> 502, errors |-> errors])
                                ELSE @]
    /\ UNCHANGED <<probeVars, webhookVars, queueVars, seedVars, phoneVars, containsVars, searchVars, scanVars, kixieVars, resolveVars, installVars, fieldsVars, postVars, idemVars, twoStageVars>>

\* webhooks: the EventLog row and the response: 500 with the error text, or ok.
HistoryLog ==
    /\ hw.pc = "log"
    /\ hw' = [hw EXCEPT
             !.pc = "done",
             !.row = Some([status |-> IF hw.error = None THEN "ok" ELSE "error",
                           error |-> hw.error]),
             !.resp = Some(IF hw.error = None THEN [code |-> 200, ok |-> TRUE]
                           ELSE [code |-> 500, detail |-> hw.error.v])]
    /\ UNCHANGED <<probeVars, webhookVars, queueVars, seedVars, phoneVars, containsVars, searchVars, scanVars, kixieVars, resolveVars, installVars, fieldsVars, postVars, idemVars, twoStageVars>>

\* kixie_webhook: rn = await create_history(token, hist); the handler returns
\* a dict with rn's status, the link field and rn itself.  create_history is
\* _try_paths, which does not raise on a transport error.  No EventLog row.
HistoryOnce ==
    /\ hw.pc = "write" /\ hw.writer = "kixie_webhook"
    /\ \E a \in {w \in WriteAnswers : ~w.raised} :
          hw' = [hw EXCEPT
                !.attempts = Append(@, [candidate |-> hw.link_field, answer |-> a]),
                !.success = IF Accepted(a) THEN Some(a) ELSE @,
                !.pc = "done",
                !.resp = Some([code |-> 200, status |-> a.status,
                               link_field |-> hw.link_field, realnex |-> a])]
    /\ UNCHANGED <<probeVars, webhookVars, queueVars, seedVars, phoneVars, containsVars, searchVars, scanVars, kixieVars, resolveVars, installVars, fieldsVars, postVars, idemVars, twoStageVars>>

HistoryNext ==
    \/ HistoryAttempt
    \/ HistoryLog
    \/ HistoryOnce

(***************************************************************************)
(* Installation: install of app/routes/install.py and routes/install.py.   *)
(* Every request builds a Tenant with active=True and commits it; neither  *)
(* revision queries table tenant before the insert.                        *)
(***************************************************************************)
MaxTenants == 2

InstallVersions == {"app", "legacy"}
\* InstallBody.name, InstallBody.kixie_business_id
TenantNames == {None, Some("A"), Some("B")}
InstallBusinessIds == {None, Some("biz1"), Some("biz2")}
\* os.getenv("KIXIE_BUSINESS_ID")
EnvBusinessIds == {None, Some("biz1")}
\* secrets.token_hex(16)
TokenHex == {"s1", "s2"}
\* for event, wname in [("endcall", ...), ("disposition", ...), ("sms", ...)]
InstallEvents == <<"endcall", "disposition", "sms">>
\* create_or_update_webhook returns or raises
HookAnswers == {"ok", "raise"}

\* _resolve_defaults: name and business id of the body, or of the environment
\* (DEFAULT_TENANT_NAME is unset: "Dev Tenant"); the legacy revision takes
\* the body as it is.
ResolvedName(version, name) ==
    IF version = "app" /\ name = None THEN Some("Dev Tenant") ELSE name

ResolvedBusinessId(version, bizid, env_bizid) ==
    IF version = "app" /\ bizid = None THEN env_bizid ELSE bizid

\* name = mapped_column(String(120), unique=True): the commit of a row whose
\* name is missing or already in the table raises.
CommitRaises(tenants, name) ==
    \/ name = None
    \/ \E i \in 1..Len(tenants) : tenants[i].name = name.v

\* Tenant(name=..., kixie_business_id=bizid, ..., webhook_secret=secret, active=True)
NewTenant(tenants, name, bizid, secret) ==
    [id |-> Len(tenants) + 1, name |-> name.v, kixie_business_id |-> bizid.v,
     webhook_secret |-> secret, active |-> TRUE]

NoInstall ==
    [pc |-> "idle", version |-> "", env_bizid |-> None, tenants |-> <<>>,
     tenant_id |-> 0, k |-> 0, webhook_errors |-> <<>>, resp |-> None]

\* install up to db.commit(): 400 on missing credentials (422 from the body
\* model in the legacy revision), else the new active row.
InstallCommit(version, body_name, body_bizid, has_creds, secret) ==
    /\ ins.pc \in {"idle", "done"}
    /\ Len(ins.tenants) < MaxTenants
    /\ LET name == ResolvedName(version, body_name)
           bizid == ResolvedBusinessId(version, body_bizid, ins.env_bizid)
           start == [ins EXCEPT !.version = version, !.tenant_id = 0, !.k = 0,
                                !.webhook_errors = <<>>, !.resp = None]
       IN IF bizid = None \/ ~has_creds
          THEN ins' = [start EXCEPT !.pc = "done",
                          !.resp = Some([code |-> IF version = "app" THEN 400 ELSE 422])]
          ELSE IF CommitRaises(ins.tenants, name)
          THEN ins' = [start EXCEPT !.pc = "done", !.resp = Some([code |-> 500])]
          ELSE ins' = [start EXCEPT !.pc = "hooks", !.k = 1,
                          !.tenant_id = Len(ins.tenants) + 1,
                          !.tenants = Append(@, NewTenant(ins.tenants, name, bizid, secret))]
    /\ UNCHANGED <<probeVars, webhookVars, queueVars, seedVars, phoneVars, containsVars, searchVars, scanVars, kixieVars, resolveVars, historyVars, fieldsVars, postVars, idemVars, twoStageVars>>

\* install, the loop over the three events: a failed registration is collected
\* (app) or answered 502 (legacy); the tenant stays installed either way.
InstallWebhook(answer) ==
    /\ ins.pc = "hooks"
    /\ LET errors == IF answer = "raise"
                     THEN Append(ins.webhook_errors, InstallEvents[ins.k])
                     ELSE ins.webhook_errors
       IN IF answer = "raise" /\ ins.version = "legacy"
          THEN ins' = [ins EXCEPT !.pc = "done", !.resp = Some([code |-> 502])]
          ELSE IF ins.k < Len(InstallEvents)
          THEN ins' = [ins EXCEPT !.k = @ + 1, !.webhook_errors = errors]
          ELSE ins' = [ins EXCEPT !.pc = "done", !.webhook_errors = errors,
                          !.resp = Some([code |-> 200, tenant_id |-> ins.tenant_id,
                                         ok |-> errors = <<>>])]
    /\ UNCHANGED <<probeVars, webhookVars, queueVars, seedVars, phoneVars, containsVars, searchVars, scanVars, kixieVars, resolveVars, historyVars, fieldsVars, postVars, idemVars, twoStageVars>>

InstallNext ==
    \/ \E v \in InstallVersions, n \in TenantNames, b \in InstallBusinessIds,
          c \in BOOLEAN, s \in TokenHex : InstallCommit(v, n, b, c, s)
    \/ \E a \in HookAnswers : InstallWebhook(a)

(***************************************************************************)
(* Field discovery: probe_odata_phone_fields, _odata_field_is_selectable   *)
(* and _odata_guess_phone_fields_from_sample of                            *)
(* app/services/realnex_api.py.                                            *)
(***************************************************************************)

\* Bound: field names in the answer of get_table_definition.
MaxDefs == 2

\* for s in ["Mobile","Fax","DoNotFax","Phone","Phone1",...]
SeedFields ==
    << "Mobile", "Fax", "DoNotFax", "Phone", "Phone1", "Phone2", "Phone3",
       "AssistantPhone", "HomePhone", "WorkPhone" >>

\* Names the definitions or a sample row can carry, after _safe_field_name.
DefNames == {"Phone", "Email", "Tel"}

\* _like_phone_name on the names above: the lowered name contains one of
\* "phone", "mobile", "cell", "assistant", "fax", "telephone", "tel".
_like_phone_name(name) ==
    name \in {SeedFields[k] : k \in 1..Len(SeedFields)} \cup {"Tel", "CellNumber"}

\* get_table_definition: a list of items, or a body that is no list (an error
\* body, the 599 of a transport failure).
DefAnswers == {None} \cup {Some(d) : d \in SeqUpTo(DefNames, MaxDefs)}

\* One GET with $select=<field>&$top=1: a status code, or httpx.HTTPError.
SelectAnswers ==
    { [kind |-> "http", code |-> 200], [kind |-> "http", code |-> 399],
      [kind |-> "http", code |-> 400], [kind |-> "transport", code |-> 0] }

\* The first row of the sample read with the keys it carries, or no row from
\* any base.
SampleRows ==
    { None, Some(<<>>), Some(<<"CellNumber">>), Some(<<"Email", "CellNumber">>),
      Some(<<"CellNumber", "Tel">>) }

\* r.status_code < 400; httpx.HTTPError is passed over
SelectPasses(a) == a.kind = "http" /\ a.code < 400

\* _odata_field_is_selectable: True at the first OData base answering below 400.
_odata_field_is_selectable(answers) ==
    \E b \in 1..Len(answers) : SelectPasses(answers[b])

\* The names of a list that look like phone fields, in the order of the list.
RECURSIVE PhoneLike(_)
PhoneLike(names) ==
    IF names = <<>> THEN <<>>
    ELSE LET rest == PhoneLike(Tail(names))
         IN IF _like_phone_name(Head(names)) THEN <<Head(names)>> \o rest ELSE rest

InSeq(x, s) == \E k \in 1..Len(s) : s[k] = x

\* for s in seeds: if s not in candidates: candidates.append(s)
RECURSIVE AppendMissing(_, _)
AppendMissing(list, more) ==
    IF more = <<>> THEN list
    ELSE AppendMissing(IF InSeq(Head(more), list) THEN list ELSE Append(list, Head(more)),
                       Tail(more))

\* candidates: the phone-like names of the definitions as they come, then the
\* seeds not yet among them.
FieldCandidates(defs) ==
    AppendMissing(IF defs = None THEN <<>> ELSE PhoneLike(defs.v), SeedFields)

\* What the definitions gave: no list, a list without a phone-like name, or
\* phone-like names.
MetaOf(defs) ==
    IF defs = None THEN "unavailable"
    ELSE IF PhoneLike(defs.v) = <<>> THEN "none" ELSE "some"

\* if not validated: inferred = await _odata_guess_phone_fields_from_sample(token)
NeedsSampleAlways(validated) == TRUE
NeedsSample(validated) == validated = <<>>

NoFields ==
    [pc |-> "idle", nb |-> 0, candidates |-> <<>>, i |-> 0, validated |-> <<>>,
     from |-> <<>>, passed |-> {}, failed |-> {}, keys |-> <<>>, result |-> None,
     meta |-> "", nvalid |-> 0, sampled |-> FALSE]

\* probe_odata_phone_fields: the definitions are read and the candidates listed.
FieldsDefinitions(defs) ==
    /\ pf.pc = "defs"
    /\ pf' = [pf EXCEPT !.pc = "validate", !.candidates = FieldCandidates(defs), !.i = 1,
                       !.meta = MetaOf(defs)]
    /\ UNCHANGED <<probeVars, webhookVars, queueVars, seedVars, phoneVars, containsVars, searchVars, scanVars, kixieVars, resolveVars, historyVars, installVars, postVars, idemVars, twoStageVars>>

\* One probe of the list `fields` at position i, with what the bases answer:
\* the field is appended when selectable (`from` keeps its position).
Probed(fields, answers) ==
    LET f == fields[pf.i]
        ok == _odata_field_is_selectable(answers)
    IN [pf EXCEPT !.i = @ + 1,
                  !.validated = IF ok THEN Append(@, f) ELSE @,
                  !.from = IF ok THEN Append(@, pf.i) ELSE @,
                  !.passed = IF \E b \in 1..Len(answers) : SelectPasses(answers[b])
                             THEN @ \cup {f} ELSE @,
                  !.failed = IF \A b \in 1..Len(answers) : ~SelectPasses(answers[b])
                             THEN @ \cup {f} ELSE @]

\* for f in candidates: if await _odata_field_is_selectable(token, f): ...;
\* after the last one the list is returned unless it is empty.
FieldsValidate ==
    /\ pf.pc = "validate"
    /\ \E answers \in [1..pf.nb -> SelectAnswers] :
          LET p == Probed(pf.candidates, answers)
          IN IF pf.i < Len(pf.candidates) THEN pf' = p
             ELSE IF NeedsSample(p.validated)
             THEN pf' = [p EXCEPT !.pc = "sample", !.nvalid = Len(p.validated)]
             ELSE pf' = [p EXCEPT !.pc = "done", !.nvalid = Len(p.validated),
                            !.result = Some(p.validated)]
    /\ UNCHANGED <<probeVars, webhookVars, queueVars, seedVars, phoneVars, containsVars, searchVars, scanVars, kixieVars, resolveVars, historyVars, installVars, postVars, idemVars, twoStageVars>>

\* _odata_guess_phone_fields_from_sample: the sample read; without a row the
\* empty list is returned, with one its phone-like keys are probed.
FieldsSample(row) ==
    /\ pf.pc = "sample"
    /\ row # None => pf.nb > 0
    /\ LET keys == IF row = None THEN <<>> ELSE PhoneLike(row.v)
       IN IF keys = <<>>
          THEN pf' = [pf EXCEPT !.pc = "done", !.sampled = TRUE,
                         !.result = Some(AppendMissing(pf.validated, <<>>))]
          ELSE pf' = [pf EXCEPT !.pc = "infer", !.sampled = TRUE, !.keys = keys, !.i = 1,
                         !.from = <<>>]
    /\ UNCHANGED <<probeVars, webhookVars, queueVars, seedVars, phoneVars, containsVars, searchVars, scanVars, kixieVars, resolveVars, historyVars, installVars, postVars, idemVars, twoStageVars>>

\* for k in keys: if await _odata_field_is_selectable(token, k): valid.append(k);
\* then `for x in inferred: if x not in validated: validated.append(x)`.
FieldsInfer ==
    /\ pf.pc = "infer"
    /\ \E answers \in [1..pf.nb -> SelectAnswers] :
          LET p == Probed(pf.keys, answers)
          IN IF pf.i < Len(pf.keys) THEN pf' = p
             ELSE pf' = [p EXCEPT !.pc = "done",
                            !.result = Some(AppendMissing(<<>>, p.validated))]
    /\ UNCHANGED <<probeVars, webhookVars, queueVars, seedVars, phoneVars, containsVars, searchVars, scanVars, kixieVars, resolveVars, historyVars, installVars, postVars, idemVars, twoStageVars>>

FieldsNext ==
    \/ \E defs \in DefAnswers : FieldsDefinitions(defs)
    \/ FieldsValidate
    \/ \E row \in SampleRows : FieldsSample(row)
    \/ FieldsInfer

(***************************************************************************)
(* Dialer-platform client: _post of app/services/kixie_api.py.             *)
(***************************************************************************)

\* Bound: the greatest `retries` a call is made with (the default is 2).
MaxRetries == 2

\* retries: int = 2, not validated: with a negative value the loop has no pass
RetryCounts == (-1)..MaxRetries

\* client.post: a response with its status code, or httpx.HTTPError.
PostAnswers ==
    { [kind |-> "http", code |-> c] :
         c \in {200, 299, 300, 404, 429, 500, 501, 502, 503, 504} }
    \cup { [kind |-> "transport", code |-> 0] }

\* if r.status_code in (429, 500, 502, 503, 504) and attempt < retries
ShouldRetryAnyError(code, attempt, retries) == code >= 400 /\ attempt < retries
ShouldRetry(code, attempt, retries) ==
    code \in {429, 500, 502, 503, 504} /\ attempt < retries

NoPost == [pc |-> "idle", retries |-> 0, attempt |-> 0, sent |-> <<>>, result |-> None]

\* One pass of `for attempt in range(retries + 1)`: the request and what its
\* answer leads to (the sleeps between attempts take time and change nothing).
PostAttempt(a) ==
    /\ kp.pc = "loop"
    /\ kp.attempt <= kp.retries
    /\ LET sent == Append(kp.sent, a)
           again == [kp EXCEPT !.sent = sent, !.attempt = @ + 1,
                               !.pc = IF kp.attempt + 1 <= kp.retries THEN "loop" ELSE "after"]
       IN IF a.kind = "transport"
          THEN IF kp.attempt >= kp.retries
               THEN kp' = [kp EXCEPT !.sent = sent, !.pc = "done",
                              !.result = Some([kind |-> "raise", exc |-> "HTTPError", status |-> 0])]
               ELSE kp' = again
          ELSE IF 200 <= a.code /\ a.code < 300
          THEN kp' = [kp EXCEPT !.sent = sent, !.pc = "done",
                         !.result = Some([kind |-> "return", exc |-> "", status |-> a.code])]
          ELSE IF ShouldRetry(a.code, kp.attempt, kp.retries)
          THEN kp' = again
          ELSE kp' = [kp EXCEPT !.sent = sent, !.pc = "done",
                         !.result = Some([kind |-> "raise", exc |-> "KixieAPIError",
                                          status |-> a.code])]
    /\ UNCHANGED <<probeVars, webhookVars, queueVars, seedVars, phoneVars, containsVars, searchVars, scanVars, kixieVars, resolveVars, historyVars, installVars, fieldsVars, idemVars, twoStageVars>>

\* After the loop: raise RuntimeError("Unexpected fallthrough ...").
PostFallthrough ==
    /\ kp.pc = "after"
    /\ kp' = [kp EXCEPT !.pc = "done",
                 !.result = Some([kind |-> "raise", exc |-> "RuntimeError", status |-> 0])]
    /\ UNCHANGED <<probeVars, webhookVars, queueVars, seedVars, phoneVars, containsVars, searchVars, scanVars, kixieVars, resolveVars, historyVars, installVars, fieldsVars, idemVars, twoStageVars>>

PostNext ==
    \/ \E a \in PostAnswers : PostAttempt(a)
    \/ PostFallthrough

(***************************************************************************)
(* Fingerprints: idem_key of app/routes/kixie.py and routes/kixie.py       *)
(* applied to the inputs of two deliveries.                                *)
(***************************************************************************)

\* tenant.id
IdemTenants == {1, 2}
\* callid = body.data.get("callid") or body.data.get("id"): any string of the
\* payload, or None
IdemCallIds == {None, Some(""), Some("c1"), Some("c1|endcall")}
\* body.hookevent: any string of the payload
IdemEvents == {"endcall", "sms", "endcall|sms"}
\* the rest of the payload
IdemPayloads == {"p1", "p2"}

IdemInputs ==
    [tenant_id : IdemTenants, callid : IdemCallIds, hookevent : IdemEvents,
     payload : IdemPayloads]

NoIdem == [pc |-> "idle", a |-> None, b |-> None, ka |-> "", kb |-> ""]

\* key = idem_key(tenant.id, callid, body.hookevent), for both deliveries
IdemCompute ==
    /\ ik.pc = "inputs"
    /\ ik' = [ik EXCEPT !.pc = "done",
                 !.ka = idem_key(ik.a.v.tenant_id, ik.a.v.callid, ik.a.v.hookevent),
                 !.kb = idem_key(ik.b.v.tenant_id, ik.b.v.callid, ik.b.v.hookevent)]
    /\ UNCHANGED <<probeVars, webhookVars, queueVars, seedVars, phoneVars, containsVars, searchVars, scanVars, kixieVars, resolveVars, historyVars, installVars, fieldsVars, postVars, twoStageVars>>

IdemNext == IdemCompute

(***************************************************************************)
(* search_contact_keys_by_phone_two_stage of app/services/realnex_api.py:  *)
(* the rows of odata_contacts_filter_by_digits give candidate keys, and    *)
(* get_contact of each candidate confirms or rejects it.  ts.reads lists   *)
(* the reads of the CRM as they are answered.                              *)
(***************************************************************************)

MaxRows == 2

\* phone_raw: none, without a digit, and with digits.
TwoStagePhones == { None, Some(<<"n", "a">>), Some(<<"+", "4", "5", "8">>) }

\* A row of the OData answer with its Key and contactKey attributes: absent,
\* empty, or a key.
OdataRows ==
    [Key : {None, Some(""), Some("ck1"), Some("ck2")}, contactKey : {None, Some("ck3")}]

\* v.get("Key") or ... or v.get("contactKey"): the first truthy one.
RowKey(v) ==
    IF v.Key # None /\ v.Key # Some("") THEN v.Key
    ELSE IF v.contactKey # None /\ v.contactKey # Some("") THEN v.contactKey
    ELSE None

\* What odata_contacts_filter_by_digits returns: a 2xx with the rows of the
\* filter or the one row of the page scan, or a failure without rows.
WideAnswers ==
    {[status |-> 200, value |-> vs] : vs \in SeqUpTo(OdataRows, MaxRows) \ {<<>>}}
        \cup {[status |-> c, value |-> <<>>] : c \in {400, 404, 599}}

\* cand_keys: the keys of the rows that carry one, in the order of the rows.
RECURSIVE cand_keys(_)
cand_keys(values) ==
    IF values = <<>> THEN <<>>
    ELSE (IF RowKey(Head(values)) # None THEN <<RowKey(Head(values)).v>> ELSE <<>>)
             \o cand_keys(Tail(values))

\* An attribute of a contact body: a name k with a string or integer value, a
\* name k with a value that is neither (val = None), or a name k holding an
\* object whose attribute kk has the value.
Attr(k, kk, val) == [k |-> k, kk |-> kk, val |-> val]

\* The contact bodies read: without attributes, a phone that holds the digits
\* and one that does not, a fax, a name, a list of phones, and phones and
\* faxes one level down.
ContactBodies ==
    { {},
      {Attr("Phone", None, Some(<<"4", "5", "-", "8">>))},
      {Attr("Name", None, Some(<<"A">>)), Attr("HomePhone", None, Some(<<"1", "4", "5", "8", "0">>))},
      {Attr("Phone", None, Some(<<"4", "5", "9">>))},
      {Attr("Fax", None, Some(<<"4", "5", "8">>))},
      {Attr("Name", None, Some(<<"4", "5", "8">>))},
      {Attr("Phone", None, None)},
      {Attr("Address", Some("Phone"), Some(<<"4", "5", "8">>))},
      {Attr("Details", Some("Fax"), Some(<<"4", "5", "8">>))} }

\* What get_contact returns: the status of _try_paths, and the JSON object of
\* the answer (isdict) or a body that is a list under "data".
ContactAnswers ==
    {[status |-> 200, isdict |-> TRUE, body |-> b] : b \in ContactBodies}
        \cup { [status |-> 200, isdict |-> FALSE, body |-> {}],
               [status |-> 404, isdict |-> TRUE,
                body |-> {Attr("Phone", None, Some(<<"4", "5", "8">>))}],
               [status |-> 599, isdict |-> TRUE, body |-> {}] }

\* flat: the string and integer values of the body and of the objects one
\* level down, the latter under the name "k.kk".
Flat(body) == {a \in body : a.val # None}

\* "phone" in n.lower()
HasPhone(n) == n \in {"Phone", "HomePhone"}

\* "phone" in n.lower() or n.lower() in {"fax","mobile"}, n being k or "k.kk"
PhoneLikeName(a) ==
    IF a.kk = None THEN HasPhone(a.k) \/ a.k \in {"Fax", "Mobile"}
    ELSE HasPhone(a.k) \/ HasPhone(a.kk.v)

\* digits in s
SeqContains(s, d) ==
    \E i \in 0..(Len(s) - Len(d)) : SubSeq(s, i + 1, i + Len(d)) = d

_has_digits(d, digits) ==
    \E a \in d : PhoneLikeName(a) /\ SeqContains(StripNonDigits(a.val.v), digits)

\* A confirmation that does not look at the status of the read.
ConfirmsAnyStatus(detail, digits) ==
    detail.isdict /\ _has_digits(Flat(detail.body), digits)

\* The body of the loop over cand_keys: the read confirms the candidate.
Confirms(detail, digits) ==
    Is2xx(detail.status) /\ detail.isdict /\ _has_digits(Flat(detail.body), digits)

NoTwoStage ==
    [pc |-> "idle", raw |-> None, digits |-> <<>>, wide |-> None, cand |-> <<>>,
     i |-> 0, reads |-> <<>>, result |-> None]

TwoStageResult(status, contactKey, error) ==
    [status |-> status, contactKey |-> contactKey, error |-> error]

\* digits, the probe of the phone fields, the OData search and cand_keys.
TwoStageWide ==
    /\ ts.pc = "start"
    /\ LET digits == digits_only(ts.raw)
       IN IF digits = None
          THEN ts' = [ts EXCEPT !.pc = "done",
                         !.result = Some(TwoStageResult(400, None, "no_digits"))]
          ELSE \E wide \in WideAnswers :
                  IF ~Is2xx(wide.status)
                  THEN ts' = [ts EXCEPT !.pc = "done", !.digits = digits.v,
                                 !.wide = Some(wide),
                                 !.result = Some(TwoStageResult(404, None, "odata_no_match"))]
                  ELSE IF wide.value = <<>>
                  THEN ts' = [ts EXCEPT !.pc = "done", !.digits = digits.v,
                                 !.wide = Some(wide),
                                 !.result = Some(TwoStageResult(404, None, "odata_empty"))]
                  ELSE ts' = [ts EXCEPT !.pc = "verify", !.digits = digits.v,
                                 !.wide = Some(wide), !.cand = cand_keys(wide.value),
                                 !.i = 1]
    /\ UNCHANGED <<probeVars, webhookVars, queueVars, seedVars, phoneVars, containsVars, searchVars, scanVars, kixieVars, resolveVars, historyVars, installVars, fieldsVars, postVars, idemVars>>

\* for ck in cand_keys: get_contact, and the return on the first confirmation.
TwoStageVerify ==
    /\ ts.pc = "verify" /\ ts.i <= Len(ts.cand)
    /\ \E detail \in ContactAnswers :
          LET ck == ts.cand[ts.i]
          IN ts' = [ts EXCEPT
                !.reads = Append(@, [key |-> ck, detail |-> detail]),
                !.i = @ + 1,
                !.pc = IF Confirms(detail, ts.digits) THEN "done" ELSE @,
                !.result = IF Confirms(detail, ts.digits)
                           THEN Some(TwoStageResult(200, Some(ck), "")) ELSE @]
    /\ UNCHANGED <<probeVars, webhookVars, queueVars, seedVars, phoneVars, containsVars, searchVars, scanVars, kixieVars, resolveVars, historyVars, installVars, fieldsVars, postVars, idemVars>>

\* After the loop: no_candidate_verified.
TwoStageNoneVerified ==
    /\ ts.pc = "verify" /\ ts.i > Len(ts.cand)
    /\ ts' = [ts EXCEPT !.pc = "done",
                  !.result = Some(TwoStageResult(404, None, "no_candidate_verified"))]
    /\ UNCHANGED <<probeVars, webhookVars, queueVars, seedVars, phoneVars, containsVars, searchVars, scanVars, kixieVars, resolveVars, historyVars, installVars, fieldsVars, postVars, idemVars>>

TwoStageNext == TwoStageWide \/ TwoStageVerify \/ TwoStageNoneVerified

(***************************************************************************)
(* Specifications                                                          *)
(***************************************************************************)

\* One call of _try_paths: BASES, paths and what each URL answers are drawn.
ProbeInit ==
    /\ \E nb \in 0..NumBases, np \in 1..NumPaths :
          \E ans \in [(1..nb) \X (1..np) -> Answers] :
             tp_in = [nb |-> nb, np |-> np, answers |-> ans]
    /\ tp = ProbeStart
    /\ event_log = <<>> /\ deliveries = <<>> /\ crm = NoCrmWrites
    /\ queue = <<>> /\ clock = 0 /\ calls = [a \in Agents |-> IdleCall] /\ ncalls = 0
    /\ seeds = [s \in Seeders |-> IdleSeed]
    /\ ph = NoPhone
    /\ tc = NoContains
    /\ sr = NoSearch
    /\ sp = NoScan
    /\ kw = NoKixie
    /\ rc = NoResolve
    /\ hw = NoHistory
    /\ ins = NoInstall
    /\ pf = NoFields
    /\ kp = NoPost
    /\ ik = NoIdem
    /\ ts = NoTwoStage

ProbeNext == TryPathsSend \/ TryPathsExhausted

SpecProbe == ProbeInit /\ [][ProbeNext]_vars

WebhookInit ==
    /\ event_log = <<>> /\ deliveries = <<>> /\ crm = NoCrmWrites
    /\ tp_in = NoProbe /\ tp = ProbeStart
    /\ queue = <<>> /\ clock = 0 /\ calls = [a \in Agents |-> IdleCall] /\ ncalls = 0
    /\ seeds = [s \in Seeders |-> IdleSeed]
    /\ ph = NoPhone
    /\ tc = NoContains
    /\ sr = NoSearch
    /\ sp = NoScan
    /\ kw = NoKixie
    /\ rc = NoResolve
    /\ hw = NoHistory
    /\ ins = NoInstall
    /\ pf = NoFields
    /\ kp = NoPost
    /\ ik = NoIdem
    /\ ts = NoTwoStage

SpecWebhook == WebhookInit /\ [][WebhookNext]_vars

QueueInit ==
    /\ queue = <<>> /\ clock = 0 /\ calls = [a \in Agents |-> IdleCall] /\ ncalls = 0
    /\ tp_in = NoProbe /\ tp = ProbeStart
    /\ event_log = <<>> /\ deliveries = <<>> /\ crm = NoCrmWrites
    /\ seeds = [s \in Seeders |-> IdleSeed]
    /\ ph = NoPhone
    /\ tc = NoContains
    /\ sr = NoSearch
    /\ sp = NoScan
    /\ kw = NoKixie
    /\ rc = NoResolve
    /\ hw = NoHistory
    /\ ins = NoInstall
    /\ pf = NoFields
    /\ kp = NoPost
    /\ ik = NoIdem
    /\ ts = NoTwoStage

SpecQueue == QueueInit /\ [][QueueNext]_vars

LeaseInit ==
    /\ queue = <<>> /\ clock = 0 /\ calls = [a \in Agents |-> IdleCall] /\ ncalls = 0
    /\ tp_in = NoProbe /\ tp = ProbeStart
    /\ event_log = <<>> /\ deliveries = <<>> /\ crm = NoCrmWrites
    /\ seeds = [s \in Seeders |-> IdleSeed]
    /\ ph = NoPhone
    /\ tc = NoContains
    /\ sr = NoSearch
    /\ sp = NoScan
    /\ kw = NoKixie
    /\ rc = NoResolve
    /\ hw = NoHistory
    /\ ins = NoInstall
    /\ pf = NoFields
    /\ kp = NoPost
    /\ ik = NoIdem
    /\ ts = NoTwoStage

SpecLease == LeaseInit /\ [][LeaseNext]_vars

EnqueueInit ==
    /\ queue = <<>> /\ clock = 0 /\ calls = [a \in Agents |-> IdleCall] /\ ncalls = 0
    /\ seeds = [s \in Seeders |-> IdleSeed]
    /\ tp_in = NoProbe /\ tp = ProbeStart
    /\ event_log = <<>> /\ deliveries = <<>> /\ crm = NoCrmWrites
    /\ ph = NoPhone
    /\ tc = NoContains
    /\ sr = NoSearch
    /\ sp = NoScan
    /\ kw = NoKixie
    /\ rc = NoResolve
    /\ hw = NoHistory
    /\ ins = NoInstall
    /\ pf = NoFields
    /\ kp = NoPost
    /\ ik = NoIdem
    /\ ts = NoTwoStage

SpecEnqueue == EnqueueInit /\ [][EnqueueNext]_vars

\* One phone string, drawn, then normalized and normalized again.
PhoneInit ==
    /\ ph \in {[NoPhone EXCEPT !.pc = "raw", !.raw = r] : r \in RawPhones}
    /\ queue = <<>> /\ clock = 0 /\ calls = [a \in Agents |-> IdleCall] /\ ncalls = 0
    /\ seeds = [s \in Seeders |-> IdleSeed]
    /\ tp_in = NoProbe /\ tp = ProbeStart
    /\ event_log = <<>> /\ deliveries = <<>> /\ crm = NoCrmWrites
    /\ tc = NoContains
    /\ sr = NoSearch
    /\ sp = NoScan
    /\ kw = NoKixie
    /\ rc = NoResolve
    /\ hw = NoHistory
    /\ ins = NoInstall
    /\ pf = NoFields
    /\ kp = NoPost
    /\ ik = NoIdem
    /\ ts = NoTwoStage

SpecPhone == PhoneInit /\ [][PhoneNext]_vars

\* One call of _odata_try_contains: the field list and the OData bases are drawn.
ContainsInit ==
    /\ \E nb \in 0..MaxODataBases, fields \in SeqUpTo(PhoneFields, MaxFields) :
          tc = [NoContains EXCEPT !.pc = IF fields = <<>> THEN "send" ELSE "probe",
                                  !.nb = nb, !.fields = fields, !.i = 1]
    /\ ph = NoPhone
    /\ queue = <<>> /\ clock = 0 /\ calls = [a \in Agents |-> IdleCall] /\ ncalls = 0
    /\ seeds = [s \in Seeders |-> IdleSeed]
    /\ tp_in = NoProbe /\ tp = ProbeStart
    /\ event_log = <<>> /\ deliveries = <<>> /\ crm = NoCrmWrites
    /\ sr = NoSearch
    /\ sp = NoScan
    /\ kw = NoKixie
    /\ rc = NoResolve
    /\ hw = NoHistory
    /\ ins = NoInstall
    /\ pf = NoFields
    /\ kp = NoPost
    /\ ik = NoIdem
    /\ ts = NoTwoStage

SpecContains == ContainsInit /\ [][ContainsNext]_vars

\* One search call: the entry point and the phone are drawn.
SearchInit ==
    /\ \E entry \in SearchEntries, raw \in SearchPhones :
          /\ entry # "find" => raw # None
          /\ sr = [NoSearch EXCEPT !.pc = "start", !.entry = entry, !.raw = raw]
    /\ tc = NoContains /\ ph = NoPhone
    /\ queue = <<>> /\ clock = 0 /\ calls = [a \in Agents |-> IdleCall] /\ ncalls = 0
    /\ seeds = [s \in Seeders |-> IdleSeed]
    /\ tp_in = NoProbe /\ tp = ProbeStart
    /\ event_log = <<>> /\ deliveries = <<>> /\ crm = NoCrmWrites
    /\ sp = NoScan
    /\ kw = NoKixie
    /\ rc = NoResolve
    /\ hw = NoHistory
    /\ ins = NoInstall
    /\ pf = NoFields
    /\ kp = NoPost
    /\ ik = NoIdem
    /\ ts = NoTwoStage

SpecSearch == SearchInit /\ [][SearchNext]_vars

\* One call of _odata_scan_pages: the number of OData bases among BASES and
\* whether the field list is empty are drawn.
ScanInit ==
    /\ \E nb \in 0..MaxODataBases, has_fields \in BOOLEAN :
          sp = [NoScan EXCEPT !.pc = "scan", !.nb = nb, !.has_fields = has_fields,
                   !.base = 1]
    /\ sr = NoSearch /\ tc = NoContains /\ ph = NoPhone
    /\ queue = <<>> /\ clock = 0 /\ calls = [a \in Agents |-> IdleCall] /\ ncalls = 0
    /\ seeds = [s \in Seeders |-> IdleSeed]
    /\ tp_in = NoProbe /\ tp = ProbeStart
    /\ event_log = <<>> /\ deliveries = <<>> /\ crm = NoCrmWrites
    /\ kw = NoKixie
    /\ rc = NoResolve
    /\ hw = NoHistory
    /\ ins = NoInstall
    /\ pf = NoFields
    /\ kp = NoPost
    /\ ik = NoIdem
    /\ ts = NoTwoStage

SpecScan == ScanInit /\ [][ScanNext]_vars

\* One delivery to POST /webhooks/kixie: the environment (secret, token,
\* attachment switch) and the request (signature, timezone header, direction,
\* numbers) are drawn.
KixieInit ==
    /\ \E secret \in KixieSecrets, header_sig \in SignatureHeaders, token \in BOOLEAN,
          x_user_tz \in BOOLEAN, attach \in BOOLEAN,
          direction \in {"outbound", "inbound"}, to_number \in KixieNumbers,
          from_number \in {None, Some(<<"+">> \o PhoneDigits("1", 11))} :
          kw = [NoKixie EXCEPT !.pc = "start", !.secret = secret,
                   !.header_sig = header_sig, !.token = token, !.x_user_tz = x_user_tz,
                   !.attach = attach,
                   !.target_number = TargetNumber(direction, to_number, from_number)]
    /\ sp = NoScan /\ sr = NoSearch /\ tc = NoContains /\ ph = NoPhone
    /\ queue = <<>> /\ clock = 0 /\ calls = [a \in Agents |-> IdleCall] /\ ncalls = 0
    /\ seeds = [s \in Seeders |-> IdleSeed]
    /\ tp_in = NoProbe /\ tp = ProbeStart
    /\ event_log = <<>> /\ deliveries = <<>> /\ crm = NoCrmWrites
    /\ rc = NoResolve
    /\ hw = NoHistory
    /\ ins = NoInstall
    /\ pf = NoFields
    /\ kp = NoPost
    /\ ik = NoIdem
    /\ ts = NoTwoStage

SpecKixie == KixieInit /\ [][KixieNext]_vars

\* One call of _find_or_create_contact, of either revision.
ResolveInit ==
    /\ \E version \in ResolveVersions :
          rc = [NoResolve EXCEPT !.pc = "search", !.version = version, !.tier = 1]
    /\ kw = NoKixie /\ sp = NoScan /\ sr = NoSearch /\ tc = NoContains /\ ph = NoPhone
    /\ queue = <<>> /\ clock = 0 /\ calls = [a \in Agents |-> IdleCall] /\ ncalls = 0
    /\ seeds = [s \in Seeders |-> IdleSeed]
    /\ tp_in = NoProbe /\ tp = ProbeStart
    /\ event_log = <<>> /\ deliveries = <<>> /\ crm = NoCrmWrites
    /\ hw = NoHistory
    /\ ins = NoInstall
    /\ pf = NoFields
    /\ kp = NoPost
    /\ ik = NoIdem
    /\ ts = NoTwoStage

SpecResolve == ResolveInit /\ [][ResolveNext]_vars

\* One history write of a delivery whose contact was resolved.
HistoryInit ==
    /\ \E writer \in HistoryWriters, link_field \in LinkFields :
          hw = [NoHistory EXCEPT !.pc = "write", !.writer = writer,
                   !.link_field = link_field, !.i = 1]
    /\ rc = NoResolve /\ kw = NoKixie /\ sp = NoScan /\ sr = NoSearch
    /\ tc = NoContains /\ ph = NoPhone
    /\ queue = <<>> /\ clock = 0 /\ calls = [a \in Agents |-> IdleCall] /\ ncalls = 0
    /\ seeds = [s \in Seeders |-> IdleSeed]
    /\ tp_in = NoProbe /\ tp = ProbeStart
    /\ event_log = <<>> /\ deliveries = <<>> /\ crm = NoCrmWrites
    /\ ins = NoInstall
    /\ pf = NoFields
    /\ kp = NoPost
    /\ ik = NoIdem
    /\ ts = NoTwoStage

SpecHistory == HistoryInit /\ [][HistoryNext]_vars

\* No tenant installed yet; KIXIE_BUSINESS_ID is set in the environment or not.
InstallInit ==
    /\ \E e \in EnvBusinessIds : ins = [NoInstall EXCEPT !.env_bizid = e]
    /\ hw = NoHistory /\ rc = NoResolve /\ kw = NoKixie /\ sp = NoScan /\ sr = NoSearch
    /\ tc = NoContains /\ ph = NoPhone
    /\ queue = <<>> /\ clock = 0 /\ calls = [a \in Agents |-> IdleCall] /\ ncalls = 0
    /\ seeds = [s \in Seeders |-> IdleSeed]
    /\ tp_in = NoProbe /\ tp = ProbeStart
    /\ event_log = <<>> /\ deliveries = <<>> /\ crm = NoCrmWrites
    /\ pf = NoFields
    /\ kp = NoPost
    /\ ik = NoIdem
    /\ ts = NoTwoStage

SpecInstall == InstallInit /\ [][InstallNext]_vars

\* One call of probe_odata_phone_fields, with up to MaxODataBases OData bases.
FieldsInit ==
    /\ \E nb \in 0..MaxODataBases : pf = [NoFields EXCEPT !.pc = "defs", !.nb = nb]
    /\ ins = NoInstall
    /\ hw = NoHistory /\ rc = NoResolve /\ kw = NoKixie /\ sp = NoScan /\ sr = NoSearch
    /\ tc = NoContains /\ ph = NoPhone
    /\ queue = <<>> /\ clock = 0 /\ calls = [a \in Agents |-> IdleCall] /\ ncalls = 0
    /\ seeds = [s \in Seeders |-> IdleSeed]
    /\ tp_in = NoProbe /\ tp = ProbeStart
    /\ event_log = <<>> /\ deliveries = <<>> /\ crm = NoCrmWrites
    /\ kp = NoPost
    /\ ik = NoIdem
    /\ ts = NoTwoStage

SpecFields == FieldsInit /\ [][FieldsNext]_vars

\* One call of _post with `retries` drawn.
PostInit ==
    /\ \E n \in RetryCounts :
          kp = [NoPost EXCEPT !.pc = IF n + 1 > 0 THEN "loop" ELSE "after", !.retries = n]
    /\ pf = NoFields /\ ins = NoInstall
    /\ hw = NoHistory /\ rc = NoResolve /\ kw = NoKixie /\ sp = NoScan /\ sr = NoSearch
    /\ tc = NoContains /\ ph = NoPhone
    /\ queue = <<>> /\ clock = 0 /\ calls = [a \in Agents |-> IdleCall] /\ ncalls = 0
    /\ seeds = [s \in Seeders |-> IdleSeed]
    /\ tp_in = NoProbe /\ tp = ProbeStart
    /\ event_log = <<>> /\ deliveries = <<>> /\ crm = NoCrmWrites
    /\ ik = NoIdem
    /\ ts = NoTwoStage

SpecPost == PostInit /\ [][PostNext]_vars

\* The inputs of two deliveries, drawn.
IdemInit ==
    /\ \E a \in IdemInputs, b \in IdemInputs :
          ik = [NoIdem EXCEPT !.pc = "inputs", !.a = Some(a), !.b = Some(b)]
    /\ kp = NoPost /\ pf = NoFields /\ ins = NoInstall
    /\ hw = NoHistory /\ rc = NoResolve /\ kw = NoKixie /\ sp = NoScan /\ sr = NoSearch
    /\ tc = NoContains /\ ph = NoPhone
    /\ queue = <<>> /\ clock = 0 /\ calls = [a \in Agents |-> IdleCall] /\ ncalls = 0
    /\ seeds = [s \in Seeders |-> IdleSeed]
    /\ tp_in = NoProbe /\ tp = ProbeStart
    /\ event_log = <<>> /\ deliveries = <<>> /\ crm = NoCrmWrites
    /\ ts = NoTwoStage

SpecIdem == IdemInit /\ [][IdemNext]_vars

\* The queue some time after a seed and one next_contact call: one row of
\* tenant 2, leased to "a1" at time 0 with a TTL of 1; the racing calls of
\* SpecQueue go on from there.
ReclaimInit ==
    /\ queue = << LockedRow([tenant_id |-> 2, campaign |-> None, object_key |-> "k1",
                             name_first |-> "Ann", status |-> "pending",
                             locked_by |-> None, locked_at |-> None,
                             attempts |-> 0, created_at |-> 0,
                             lease_ttl |-> 0, prev_lease |-> None, holders |-> {},
                             epoch |-> 0], "a1", 0, 1, 0) >>
    /\ clock = 0 /\ calls = [a \in Agents |-> IdleCall] /\ ncalls = 0
    /\ ik = NoIdem /\ kp = NoPost /\ pf = NoFields /\ ins = NoInstall
    /\ hw = NoHistory /\ rc = NoResolve /\ kw = NoKixie /\ sp = NoScan /\ sr = NoSearch
    /\ tc = NoContains /\ ph = NoPhone
    /\ seeds = [s \in Seeders |-> IdleSeed]
    /\ tp_in = NoProbe /\ tp = ProbeStart
    /\ event_log = <<>> /\ deliveries = <<>> /\ crm = NoCrmWrites
    /\ ts = NoTwoStage

SpecReclaim == ReclaimInit /\ [][QueueNext]_vars

SpecTenants == QueueInit /\ [][TenantsNext]_vars

\* Three contacts seeded one after the other into the campaign-less queue of
\* tenant 2, none leased yet.
RepeatInit ==
    /\ queue = << NewRow(2, None, "k1", "Ann", 0), NewRow(2, None, "k2", "Bob", 1),
                  NewRow(2, None, "k3", "Cy", 2) >>
    /\ clock = RelNow /\ calls = [a \in Agents |-> IdleCall] /\ ncalls = 0
    /\ ik = NoIdem /\ kp = NoPost /\ pf = NoFields /\ ins = NoInstall
    /\ hw = NoHistory /\ rc = NoResolve /\ kw = NoKixie /\ sp = NoScan /\ sr = NoSearch
    /\ tc = NoContains /\ ph = NoPhone
    /\ seeds = [s \in Seeders |-> IdleSeed]
    /\ tp_in = NoProbe /\ tp = ProbeStart
    /\ event_log = <<>> /\ deliveries = <<>> /\ crm = NoCrmWrites
    /\ ts = NoTwoStage

\* Every request runs to its end, the agent keeps calling, and time passes.
SpecRepeat ==
    RepeatInit /\ [][RepeatNext]_vars /\ WF_vars(RelCall("a1")) /\ WF_vars(RelTick)

TwoStageInit ==
    /\ ts \in {[NoTwoStage EXCEPT !.pc = "start", !.raw = p] : p \in TwoStagePhones}
    /\ queue = <<>> /\ clock = 0 /\ calls = [a \in Agents |-> IdleCall] /\ ncalls = 0
    /\ ik = NoIdem /\ kp = NoPost /\ pf = NoFields /\ ins = NoInstall
    /\ hw = NoHistory /\ rc = NoResolve /\ kw = NoKixie /\ sp = NoScan /\ sr = NoSearch
    /\ tc = NoContains /\ ph = NoPhone
    /\ seeds = [s \in Seeders |-> IdleSeed]
    /\ tp_in = NoProbe /\ tp = ProbeStart
    /\ event_log = <<>> /\ deliveries = <<>> /\ crm = NoCrmWrites

SpecTwoStage == TwoStageInit /\ [][TwoStageNext]_vars

(***************************************************************************)
(* Properties of the endpoint prober (SpecProbe)                           *)
(***************************************************************************)

Candidates == (1..tp_in.nb) \X (1..tp_in.np)
BaseMajorBefore(u, v) == u[1] < v[1] \/ (u[1] = v[1] /\ u[2] < v[2])
Is404(u) == tp_in.answers[u].kind = "http" /\ tp_in.answers[u].code = 404
IsTransport(u) == tp_in.answers[u].kind = "transport"
LastSent == tp.sent[Len(tp.sent)]

\* C5: _try_paths requests the (base, path) pairs base-major, path-minor, skipping
\* none; a returned response is that of the first pair not answering 404; the
\* not-found return is taken only when every pair answered 404, so without a
\* transport failure a pair that answers non-404 is never missed.
C5_FirstNon404Wins ==
    /\ \A i, j \in 1..Len(tp.sent) : i < j => BaseMajorBefore(tp.sent[i], tp.sent[j])
    /\ \A i \in 1..Len(tp.sent) : \A u \in Candidates :
          BaseMajorBefore(u, tp.sent[i]) => \E j \in 1..(i - 1) : tp.sent[j] = u
    /\ tp.pc = "returned_response" =>
          /\ ~Is404(LastSent) /\ ~IsTransport(LastSent)
          /\ tp.result = _format_resp(tp_in.answers[LastSent], LastSent)
          /\ \A v \in Candidates : BaseMajorBefore(v, LastSent) => Is404(v)
    /\ tp.pc = "returned_exhausted" => \A u \in Candidates : Is404(u)
    /\ ( /\ tp.pc # "loop"
         /\ \A u \in Candidates : ~IsTransport(u)
         /\ \E u \in Candidates : ~Is404(u) ) => tp.pc = "returned_response"

\* C5 witness: the response of a pair of the second base is returned after the
\* pairs before it answered 404.
C5_Witness ==
    /\ tp.pc = "returned_response"
    /\ Len(tp.sent) >= 3
    /\ LastSent[1] >= 2

\* C6: a transport failure is the last request of the call: nothing is sent
\* after it, and the call returns status 599 with the attempted URL, a value no
\* not-found return can have.
C6_TransportAborts ==
    /\ \A i \in 1..Len(tp.sent) :
          IsTransport(tp.sent[i]) => i = Len(tp.sent) /\ tp.pc = "returned_transport"
    /\ tp.pc = "returned_transport" =>
          /\ IsTransport(LastSent)
          /\ tp.result = [status |-> 599, error |-> "HTTPError", attempted |-> LastSent]
          /\ tp.result # [status |-> 404, error |-> "Not Found"]
          /\ \A a \in {x \in Answers : x.kind = "http"} : \A u \in Candidates :
                tp.result # _format_resp(a, u)

\* C6 witness: a transport failure after an earlier 404, with candidates left
\* that are never requested.
C6_Witness ==
    /\ tp.pc = "returned_transport"
    /\ Len(tp.sent) >= 2
    /\ Len(tp.sent) < tp_in.nb * tp_in.np

(***************************************************************************)
(* Properties of the webhook handler (SpecWebhook)                         *)
(***************************************************************************)

Delivered == 1..Len(deliveries)
RowsOf(key) == {i \in 1..Len(event_log) : event_log[i].idem_key = key}
RowsBy(d) == {i \in 1..Len(event_log) : event_log[i].by = d}
SameFingerprint(d, e) == deliveries[d].key # "" /\ deliveries[d].key = deliveries[e].key
DuplicateResponse == [code |-> 200, ok |-> TRUE, duplicate |-> TRUE]

\* C1: of two deliveries with the same tenant, call id and event kind, the
\* second arriving after the first was answered, the first (alone in flight)
\* appended one row, and the second is answered {ok, duplicate} at once with no
\* CRM search, contact creation, history write or row of its own; the log holds
\* exactly one row of that fingerprint.
C1_SecondDeliveryIsDuplicate ==
    \A d2 \in Delivered : \A d1 \in deliveries[d2].after :
        SameFingerprint(d1, d2) =>
            /\ deliveries[d2].pc = "done"
            /\ deliveries[d2].resp = DuplicateResponse
            /\ ~deliveries[d2].searched /\ ~deliveries[d2].created
            /\ ~deliveries[d2].wrote_history /\ ~deliveries[d2].appended
            /\ d2 \notin (crm.contacts \cup crm.history)
            /\ RowsBy(d2) = {}
            /\ Cardinality(RowsOf(deliveries[d2].key)) = 1
            /\ (deliveries[d1].passed /\ ~deliveries[d1].raced) =>
                  deliveries[d1].appended /\ Cardinality(RowsBy(d1)) = 1

\* C1 witness: a delivery processed with status ok and logged, then the same
\* fingerprint delivered again and answered as a duplicate.
C1_Witness ==
    \E d2 \in Delivered : \E d1 \in deliveries[d2].after :
        /\ SameFingerprint(d1, d2)
        /\ deliveries[d1].appended /\ deliveries[d1].wrote_history
        /\ deliveries[d2].resp = DuplicateResponse

\* C2: of the deliveries of one fingerprint at most one passes the EventLog
\* existence check, and at most one history record is written for it.
C2_AtMostOnePassesCheck ==
    \A d1, d2 \in Delivered :
        (d1 # d2 /\ SameFingerprint(d1, d2)) =>
            /\ ~(deliveries[d1].passed /\ deliveries[d2].passed)
            /\ ~(d1 \in crm.history /\ d2 \in crm.history)

\* C7: a delivery that passed tenant lookup, secret validation and the dedupe
\* check has, once answered, appended exactly one row under its fingerprint,
\* with status ok when resolution and history writing succeeded and with status
\* error and the error text otherwise.
C7_PassedDeliveryLogsOnce ==
    \A d \in Delivered :
        (deliveries[d].passed /\ deliveries[d].pc = "done") =>
            /\ deliveries[d].appended
            /\ Cardinality(RowsBy(d)) = 1
            /\ \A i \in RowsBy(d) :
                  /\ event_log[i].idem_key = deliveries[d].key
                  /\ IF deliveries[d].wrote_history
                     THEN event_log[i].status = "ok" /\ event_log[i].error = None
                     ELSE event_log[i].status = "error" /\ event_log[i].error # None

\* C8: a delivery whose insert hit the uniqueness violation is answered as a
\* duplicate, with a success response.
C8_UniqueViolationIsDuplicate ==
    \A d \in Delivered :
        deliveries[d].integrity_error => deliveries[d].resp = DuplicateResponse

\* C9: the event log never holds two rows with the same fingerprint.
C9_FingerprintUnique ==
    \A i, j \in 1..Len(event_log) :
        event_log[i].idem_key = event_log[j].idem_key => i = j

\* C9 witness: a second insert of a logged fingerprint was attempted and refused.
C9_Witness ==
    \E d \in Delivered :
        /\ deliveries[d].integrity_error
        /\ Cardinality(RowsOf(deliveries[d].key)) = 1

\* The deliveries logged with status error before delivery d was received.
FailedBefore(d) ==
    {e \in deliveries[d].after :
        /\ deliveries[e].appended /\ deliveries[e].status = "error"
        /\ \E i \in 1..Len(event_log) : event_log[i].by = e /\ event_log[i].status = "error"}

\* C34: after a delivery whose processing failed and was logged with status
\* error, every later delivery of the same tenant, call id and event kind
\* (one that names the tenant and carries its secret) is answered as a
\* duplicate, runs no search, creates no contact and writes no history.
C34_FailedEventNotReprocessed ==
    \A d \in 1..Len(deliveries) :
        \A e \in FailedBefore(d) :
            /\ deliveries[d].tenant_id = deliveries[e].tenant_id
            /\ deliveries[d].x_goose_secret = deliveries[e].x_goose_secret
            /\ deliveries[d].callid = deliveries[e].callid
            /\ deliveries[d].hookevent = deliveries[e].hookevent
            => /\ deliveries[d].pc = "done"
               /\ deliveries[d].resp = [code |-> 200, ok |-> TRUE, duplicate |-> TRUE]
               /\ ~deliveries[d].passed /\ ~deliveries[d].searched
               /\ ~deliveries[d].created /\ ~deliveries[d].wrote_history
               /\ ~deliveries[d].appended

\* A delivery failed at the history write and was logged; the same event was
\* delivered again.
C34_Witness ==
    \E d \in 1..Len(deliveries) : \E e \in FailedBefore(d) :
        /\ deliveries[d].key = deliveries[e].key
        /\ deliveries[e].searched /\ ~deliveries[e].wrote_history
        /\ deliveries[d].resp = [code |-> 200, ok |-> TRUE, duplicate |-> TRUE]

\* The raw body of a delivery, as far as the model tells bodies apart.
RawBody(d) ==
    deliveries[d].businessid \o "|" \o deliveries[d].hookevent \o "|"
        \o (IF deliveries[d].callid = None THEN "" ELSE deliveries[d].callid.v)

\* C27: with a webhook secret configured, a delivery whose signature is
\* missing or does not match is answered 401 before any contact search,
\* history write or log append, and only a delivery whose signature is the
\* HMAC-SHA256 of the raw body under the secret goes on to processing.
C27_OnlySignedDeliveriesProceed ==
    \A d \in 1..Len(deliveries) :
        LET me == deliveries[d]
            tenant == find_tenant(me.businessid)
        IN tenant # None =>
              IF me.x_goose_secret = HmacHex(tenant.webhook_secret, RawBody(d))
              THEN me.resp = None \/ me.resp.code # 401
              ELSE /\ me.pc = "done" /\ me.resp.code = 401
                   /\ ~me.passed /\ ~me.searched /\ ~me.wrote_history /\ ~me.appended

(***************************************************************************)
(* Properties of the lease queue (SpecQueue)                               *)
(***************************************************************************)

Items == 1..Len(queue)

\* C3: a pending item is granted to one next_contact call only: of the calls
\* racing for it, no two are returned the same item id (holders are the calls
\* that were returned the item since it last became pending).
C3_OneGrantPerPendingItem ==
    \A i \in Items : Cardinality(queue[i].holders) <= 1

\* C4: an item that passes from one holder to another was locked for longer than
\* the TTL of the lease it leaves: the new lease starts more than that TTL after
\* the start of the old one.
C4_NoHandoverWithinTtl ==
    \A i \in Items :
        ( /\ queue[i].status = "locked"
          /\ queue[i].prev_lease # None
          /\ queue[i].prev_lease.by # queue[i].locked_by.v ) =>
            queue[i].locked_at.v - queue[i].prev_lease.at > queue[i].prev_lease.ttl

StatusMoves ==
    { <<"pending", "locked">>, <<"locked", "pending">>,
      <<"locked", "done">>, <<"locked", "skipped">>, <<"locked", "error">> }

Columns(r) ==
    [tenant_id |-> r.tenant_id, campaign |-> r.campaign, object_key |-> r.object_key,
     name_first |-> r.name_first, status |-> r.status, locked_by |-> r.locked_by,
     locked_at |-> r.locked_at, attempts |-> r.attempts, created_at |-> r.created_at]

\* Row i is locked for the tenant of call a since before its now - lock_ttl_sec.
ExpiredFor(a, i) ==
    /\ queue[i].tenant_id = calls[a].tenant_id
    /\ queue[i].status = "locked"
    /\ queue[i].locked_at.v < calls[a].now - calls[a].lock_ttl_sec

\* C36: the reclaim step of next_contact changes exactly the items of the
\* caller's tenant, of every campaign, that are locked with locked_at earlier
\* than now minus the caller's lock_ttl_sec: each becomes pending with
\* locked_by and locked_at cleared; attempts, every other field and every
\* other item stay as they are.
C36_ReclaimFrame ==
    [][ \A a \in Agents :
          (calls[a].pc = "reclaim" /\ calls'[a].pc = "pick") =>
             /\ Len(queue') = Len(queue)
             /\ \A i \in Items :
                   Columns(queue'[i]) =
                      IF ExpiredFor(a, i)
                      THEN [Columns(queue[i]) EXCEPT !.status = "pending",
                               !.locked_by = None, !.locked_at = None]
                      ELSE Columns(queue[i]) ]_vars

\* C38: in every reachable state a queue item has status locked exactly when
\* its locked_by and locked_at are both set, and every pending item, newly
\* enqueued or reclaimed after expiry, has both empty.
C38_LockFieldsMatchStatus ==
    \A i \in Items :
        /\ queue[i].status = "locked" <=>
               (queue[i].locked_by # None /\ queue[i].locked_at # None)
        /\ queue[i].status = "pending" =>
               (queue[i].locked_by = None /\ queue[i].locked_at = None)

\* A row reclaimed after expiry is pending again next to a newly enqueued
\* row that is leased.
C38_Witness ==
    \E i, j \in Items :
        /\ queue[i].status = "pending" /\ queue[i].epoch >= 1
        /\ queue[j].status = "locked" /\ queue[j].epoch = 0 /\ queue[j].holders # {0}

PendingFor(c) ==
    {j \in Items : /\ queue[j].tenant_id = c.tenant_id
                   /\ queue[j].campaign = c.campaign
                   /\ queue[j].status = "pending"}

OrderedBefore(i, j) ==
    \/ queue[i].attempts < queue[j].attempts
    \/ queue[i].attempts = queue[j].attempts /\ queue[i].created_at < queue[j].created_at

\* C11: the row a next_contact call selects is a pending row of its tenant and
\* campaign that no other such row precedes by (attempts, created_at); the call
\* then sets that row to locked with locked_by = its agent and locked_at = its
\* now, changes no other row and returns the row's id; with no such pending row
\* it answers 404 "No pending records" and changes no row.
C11_PicksOldestPending ==
    [][ \A a \in Agents :
          /\ (calls[a].pc = "pick" /\ calls'[a].pc = "lock") =>
                /\ calls'[a].item \in PendingFor(calls[a])
                /\ \A j \in PendingFor(calls[a]) : ~OrderedBefore(j, calls'[a].item)
                /\ queue' = queue
          /\ (calls[a].pc = "pick" /\ calls'[a].pc = "done") =>
                /\ PendingFor(calls[a]) = {}
                /\ calls'[a].result = [code |-> 404, detail |-> "No pending records"]
                /\ queue' = queue
          /\ (calls[a].pc = "lock" /\ calls'[a].pc = "done") =>
                /\ Len(queue') = Len(queue)
                /\ queue'[calls[a].item].status = "locked"
                /\ queue'[calls[a].item].locked_by = Some(a)
                /\ queue'[calls[a].item].locked_at = Some(calls[a].now)
                /\ \A j \in Items : j # calls[a].item => queue'[j] = queue[j]
                /\ calls'[a].result.code = 200
                /\ calls'[a].result.id = calls[a].item ]_vars

\* C11 witness: a call was returned a row and locked it while a younger pending
\* row of the same campaign and an older pending row of another campaign stayed
\* in the queue.
C11_Witness ==
    \E a \in Agents : \E i, j, k \in Items :
        /\ calls[a].pc = "done" /\ calls[a].result # None
        /\ calls[a].result.code = 200 /\ calls[a].result.id = i
        /\ queue[i].status = "locked" /\ queue[i].locked_by = Some(a)
        /\ queue[j].campaign = queue[i].campaign /\ queue[j].status = "pending"
        /\ queue[j].created_at > queue[i].created_at
        /\ queue[k].campaign # queue[i].campaign /\ queue[k].status = "pending"
        /\ queue[k].created_at < queue[i].created_at

(***************************************************************************)
(* Properties of enqueueing (SpecEnqueue)                                  *)
(***************************************************************************)

\* The items of the page a request is about to commit that were not skipped.
Enqueued(r) ==
    {r.pages[r.page][k] : k \in {k \in 1..Len(r.pages[r.page]) :
                                    ~Skipped(r.kind, r.pages[r.page][k])}}

\* The rows of (tenant, campaign, object_key) in a table.
RowsOfKey(q, tenant_id, campaign, object_key) ==
    {i \in 1..Len(q) : /\ q[i].tenant_id = tenant_id
                       /\ q[i].campaign = campaign
                       /\ q[i].object_key = object_key}

\* C12: when a request commits the items of a page, for each enqueued key of
\* its tenant and campaign: if rows of the key exist, none is added, each keeps
\* status, locked_by, locked_at and attempts, and a non-empty new name is
\* written; if none exists, exactly one row is added, with status pending.  No
\* other row changes.
C12_EnqueueUpserts ==
    [][ \A s \in Seeders :
          (seeds[s].pc = "commit" /\ seeds'[s] # seeds[s]) =>
             LET r == seeds[s]
                 keys == {it.object_key.v : it \in Enqueued(r)}
                 names(K) == {it.name_first : it \in {x \in Enqueued(r) :
                                 x.object_key.v = K /\ x.name_first # ""}}
             IN /\ \A K \in keys :
                      LET old == RowsOfKey(queue, r.tenant_id, r.campaign, K)
                          new == RowsOfKey(queue', r.tenant_id, r.campaign, K)
                      IN IF old # {}
                         THEN /\ new = old
                              /\ \A i \in old :
                                    /\ queue'[i].status = queue[i].status
                                    /\ queue'[i].locked_by = queue[i].locked_by
                                    /\ queue'[i].locked_at = queue[i].locked_at
                                    /\ queue'[i].attempts = queue[i].attempts
                                    /\ queue'[i].name_first \in names(K) \cup {queue[i].name_first}
                              /\ names(K) # {} => \E i \in old : queue'[i].name_first \in names(K)
                         ELSE /\ Cardinality(new) = 1
                              /\ \A i \in new : queue'[i].status = "pending"
                /\ \A i \in Items :
                      queue[i].object_key \notin keys \/ queue[i].tenant_id # r.tenant_id
                         \/ queue[i].campaign # r.campaign => queue'[i] = queue[i] ]_vars

\* C13: no two rows of dialer_queue have the same tenant, campaign and
\* object_key, the rows with no campaign included.
C13_OneRowPerKey ==
    \A i, j \in Items :
        ( /\ queue[i].tenant_id = queue[j].tenant_id
          /\ queue[i].campaign = queue[j].campaign
          /\ queue[i].object_key = queue[j].object_key ) => i = j

(***************************************************************************)
(* Properties of phone normalization (SpecPhone)                           *)
(***************************************************************************)

\* The digits of the raw string, in order.
RawDigits == IF ph.raw = None THEN <<>> ELSE SelectSeq(ph.raw.v, IsDigit)

\* C15: for a phone string with at least 7 digits, normalizing the normalized
\* value gives the same value again, for normalize_phone_e164ish and for
\* normalize_e164.
C15_NormalizeIdempotent ==
    (ph.pc = "twice" /\ Len(RawDigits) >= 7) =>
        /\ ph.e164ish2 = ph.e164ish
        /\ ph.e164_2 = ph.e164

\* C15 witness: a punctuated ten-digit string that both functions normalize to a
\* value other than the raw string, normalized twice.
C15_Witness ==
    /\ ph.pc = "twice" /\ Len(RawDigits) = 10
    /\ ph.e164ish # None /\ ph.e164ish # ph.raw /\ ph.e164ish2 = ph.e164ish
    /\ ph.e164 # None /\ ph.e164 # ph.raw /\ ph.e164_2 = ph.e164

\* C16: normalize_phone_e164ish returns "+1" and the digits for ten digits, "+"
\* and the digits for eleven digits led by 1, no value without a digit, and
\* otherwise "+" followed by the digits alone; "(858) 458-1063" has the digits
\* 8584581063 and the canonical form +18584581063.
C16_NormalizeRules ==
    ph.pc # "raw" =>
        /\ Len(RawDigits) = 10 => ph.e164ish = Some(<<"+", "1">> \o RawDigits)
        /\ (Len(RawDigits) = 11 /\ RawDigits[1] = "1") => ph.e164ish = Some(<<"+">> \o RawDigits)
        /\ RawDigits = <<>> => ph.e164ish = None
        /\ ph.e164ish # None =>
              /\ ph.e164ish.v[1] = "+"
              /\ \A i \in 2..Len(ph.e164ish.v) : IsDigit(ph.e164ish.v[i])
              /\ StripNonDigits(Tail(ph.e164ish.v)) \in {RawDigits, <<"1">> \o RawDigits}
        /\ ph.raw = Some(ExamplePhone) =>
              /\ ph.digits = Some(<<"8", "5", "8", "4", "5", "8", "1", "0", "6", "3">>)
              /\ ph.e164ish = Some(<<"+", "1", "8", "5", "8", "4", "5", "8", "1", "0", "6", "3">>)

\* C16 witness: the example string, normalized.
C16_Witness ==
    /\ ph.pc = "once"
    /\ ph.raw = Some(ExamplePhone)
    /\ ph.e164ish = Some(<<"+", "1", "8", "5", "8", "4", "5", "8", "1", "0", "6", "3">>)

(***************************************************************************)
(* Properties of the server-side attribute filter (SpecContains)           *)
(***************************************************************************)

\* The positions of the field list whose contains() probe the CRM accepted, raw
\* or cast, on some base.
AcceptedAt == {k \in 1..Len(tc.accepted) : tc.accepted[k]}

\* C20: once _odata_try_contains has answered, the filter it sent has one part
\* for every field occurrence whose probe was accepted, in the order of the
\* field list, and no part for a rejected field; it answers
\* no_filterable_phone_fields, sending nothing, exactly when no probe was
\* accepted.
C20_FilterOverUsableFields ==
    tc.pc = "done" =>
        /\ Len(tc.accepted) = Len(tc.fields)
        /\ IF AcceptedAt = {}
           THEN tc.filter = None /\ tc.result = NoFilterableFields
           ELSE /\ tc.filter # None
                /\ tc.result \in FilterResults
                /\ Len(tc.filter.v) = Cardinality(AcceptedAt)
                /\ \A k \in 1..Len(tc.filter.v) :
                      \E p \in AcceptedAt :
                         /\ tc.fields[p] = tc.filter.v[k].field
                         /\ Cardinality({q \in AcceptedAt : q < p}) = k - 1

\* C20 witness: of two fields the first was rejected and the second accepted, and
\* the filter sent names the second alone.
C20_Witness ==
    /\ tc.pc = "done" /\ Len(tc.fields) = 2
    /\ tc.accepted = <<FALSE, TRUE>>
    /\ tc.filter # None /\ Len(tc.filter.v) = 1
    /\ tc.filter.v[1].field = tc.fields[2]

\* Number of digits of an optional phone string.
DigitCount(p) == IF digits_only(p) = None THEN 0 ELSE Len(digits_only(p).v)

\* The place of a CRM operation among the search tiers; 0 for the operations
\* that are no tier (field probe, contact read).
TierOf(op) ==
    CASE op = "search_by_phone" -> 1
      [] op = "_odata_try_contains" -> 2
      [] op = "_odata_scan_pages" -> 3
      [] OTHER -> 0

TierCalled(n) == \E i \in DOMAIN sr.log : TierOf(sr.log[i].op) = n

\* C17: in the webhook contact lookup and in the contacts search endpoint, a
\* phone that has fewer than 7 digits after normalization is rejected before
\* any CRM search request is sent.
C17_ShortPhoneRejected ==
    (/\ sr.entry \in {"find", "contacts_search"}
     /\ DigitCount(normalize_phone_e164ish(sr.raw)) < 7)
        => sr.log = <<>>

\* C18: when tier 1 (search_by_phone) answers with a 4xx or any other non-2xx
\* status, the webhook contact lookup and the contacts search endpoint go on to
\* tier 2: the call never ends without the OData filter having been tried, so
\* not-found is never reported on the failure of tier 1 alone.
C18_Tier1FailureFallsThrough ==
    (/\ sr.entry \in {"find", "contacts_search"}
     /\ sr.t1 # None
     /\ ~Is2xx(sr.t1.v.status))
        => /\ sr.pc # "done" \/ TierCalled(2)
           /\ Len(sr.log) = 1 => sr.pc = "two_stage"

\* A lookup whose tier 1 answered 404 ended without a match after tier 2 ran.
C18_Witness ==
    /\ sr.entry = "find" /\ sr.pc = "done"
    /\ sr.t1 = Some([status |-> 404, rows |-> "empty"])
    /\ sr.result.key = None
    /\ TierCalled(2)

\* C19: the tiers run strictly in the order exact CRM search, server-side
\* filter, client-side page scan; a later tier is invoked only when every
\* earlier tier produced no match, and no tier is called after the first one
\* that returned a match.
C19_TiersInOrder ==
    \A i, j \in DOMAIN sr.log :
        (i < j /\ TierOf(sr.log[i].op) > 0 /\ TierOf(sr.log[j].op) > 0)
            => /\ TierOf(sr.log[i].op) < TierOf(sr.log[j].op)
               /\ ~sr.log[i].hit

(***************************************************************************)
(* Properties of the page scan (SpecScan)                                  *)
(***************************************************************************)

\* The page requests sent to base b, in the order sent.
RequestsTo(b) == SelectSeq(sp.requests, LAMBDA r : r.base = b)

\* An answer after which no further page of the same base may be asked.
StopsPaging(a) ==
    \/ a.kind \in {"status_error", "transport"}
    \/ a.rows = 0
    \/ a.rows < PageTop

\* C21: _odata_scan_pages requests at most max_pages pages per OData base, the
\* k-th with offset (k-1) * page size; nothing is requested after a page that
\* holds a match, and the call returns that single row; no further page of a
\* base is requested after an error status, a transport error, an empty page
\* or a short page; the call always ends, with one matching row or with
\* scan_no_match.
C21_ScanPagesBounded ==
    /\ \A b \in 1..MaxODataBases :
          /\ Len(RequestsTo(b)) <= MaxScanPages
          /\ \A k \in DOMAIN RequestsTo(b) :
                /\ RequestsTo(b)[k].skip = (k - 1) * PageTop
                /\ RequestsTo(b)[k].top = PageTop
                /\ k < Len(RequestsTo(b)) => ~StopsPaging(RequestsTo(b)[k].answer)
    /\ \A i \in DOMAIN sp.requests :
          /\ sp.requests[i].base \in 1..sp.nb
          /\ sp.requests[i].answer.match > 0 =>
                /\ i = Len(sp.requests)
                /\ sp.pc = "done"
                /\ sp.result = Some([status |-> 200, method |-> "scan",
                                     value |-> <<[base |-> sp.requests[i].base,
                                                  row |-> sp.requests[i].skip
                                                          + sp.requests[i].answer.match]>>])
    /\ sp.pc = "done" =>
          \/ sp.result.v.status = 200 /\ Len(sp.result.v.value) = 1
                /\ sp.requests[Len(sp.requests)].answer.match > 0
          \/ sp.result.v.status = 404 /\ sp.result.v.method = "scan_no_match"
                /\ \A i \in DOMAIN sp.requests : sp.requests[i].answer.match = 0
    /\ sp.pc \in {"idle", "done"} \/ ENABLED ScanNext

\* A scan that asked max_pages full pages of the first base, met a short page
\* on the second and returned the match found there.
C21_Witness ==
    /\ sp.pc = "done" /\ sp.result.v.status = 200
    /\ Len(RequestsTo(1)) = MaxScanPages
    /\ Len(RequestsTo(2)) = 1
    /\ RequestsTo(2)[1].answer.rows < PageTop

(***************************************************************************)
(* Properties of kixie_webhook (SpecKixie)                                 *)
(***************************************************************************)

KixieIssued(op) == \E i \in DOMAIN kw.ops : kw.ops[i] = op

\* The operations that create a contact in the CRM.
CreateContactOps == {"create_contact", "create_contact_by_number"}

\* The lookup of the delivery has returned without a contact key.
KixieNoMatch == kw.pc \in {"history", "attach", "done"} /\ sr.pc = "done" /\ sr.result.key = None

\* C22: kixie_webhook never issues a create-contact request; when no existing
\* contact matches the target number it answers with the skipped result and
\* sends no history write (nor anything else after the lookup).
C22_WebhookNeverCreates ==
    /\ \A i \in DOMAIN kw.ops : kw.ops[i] \notin CreateContactOps
    /\ \A i \in DOMAIN sr.log : sr.log[i].op \notin CreateContactOps
    /\ KixieNoMatch =>
          /\ kw.pc = "done"
          /\ kw.resp # None /\ kw.resp.v.status = 202 /\ kw.resp.v.skipped
          /\ ~KixieIssued("create_history")
          /\ ~KixieIssued("attach_recording_from_url")

\* A delivery whose number went through the CRM search and the OData filter
\* without a match, and was skipped.
C22_Witness ==
    /\ KixieNoMatch
    /\ KixieIssued("search_by_phone") /\ KixieIssued("_odata_try_contains")
    /\ kw.resp.v.skipped

\* The status _try_paths gives a call that met a transport failure.
TransportStatus == 599

\* C26: a transport failure during a CRM call of contact resolution ends the
\* attempt chain and reaches the caller as a processing failure: after
\* search_by_phone met one, no further tier is asked and the delivery is not
\* answered as skipped (no match).
C26_TransportFailureSurfaces ==
    (sr.entry = "find" /\ sr.t1 # None /\ sr.t1.v.status = TransportStatus)
        => /\ Len(sr.log) = 1
           /\ kw.resp = None \/ kw.resp.v.code >= 400

\* C32: every CRM history write made while handling an inbound event comes
\* after the event passed the dedupe check, and the event's outcome is appended
\* to the EventLog before the response is returned.  Of kixie_webhook: a
\* delivery answered after its history write has left a row in event_log.
C32_HistoryWriteIsLogged ==
    (kw.pc = "done" /\ KixieIssued("create_history")) => Len(event_log) > 0

\* kixie_webhook: with KIXIE_WEBHOOK_SECRET set, a delivery whose
\* signature header is missing or is not the HMAC-SHA256 of the raw body is
\* answered 401 before any CRM operation; only a matching one goes on.
KixieSignatureGate ==
    (kw.pc # "idle" /\ kw.secret # None /\ kw.header_sig # Some(HmacHex(kw.secret.v, "b1")))
        => /\ kw.ops = <<>> /\ sr = NoSearch
           /\ kw.pc \in {"start", "done"}
           /\ kw.pc = "done" => kw.resp.v.code = 401

(***************************************************************************)
(* Properties of _find_or_create_contact (SpecResolve)                     *)
(***************************************************************************)

IsCreate(call) == call.op \in CreateContactOps

\* The index in rc.calls of the first search that left candidates, 0 if none.
FirstTierWithCandidates ==
    LET hits == {i \in DOMAIN rc.calls :
                    ~IsCreate(rc.calls[i])
                    /\ TierCandidates(rc.calls[i].op, rc.calls[i].answer) # <<>>}
    IN IF hits = {} THEN 0 ELSE CHOOSE i \in hits : \A j \in hits : i <= j

\* C23: _find_or_create_contact issues a create-contact request only after
\* every search tier of its revision was asked, in order, and left no
\* candidate (an empty answer, no contact among the rows, or an exception the
\* function takes for none); it issues at most one create per call; and when
\* a tier leaves candidates it asks no further tier, creates nothing and
\* returns the first candidate of that tier.
C23_CreateOnlyAfterAllTiers ==
    /\ \A i \in DOMAIN rc.calls :
          IF IsCreate(rc.calls[i])
          THEN /\ i = Len(SearchTiers(rc.version)) + 1
               /\ i = Len(rc.calls)
               /\ FirstTierWithCandidates = 0
          ELSE /\ i <= Len(SearchTiers(rc.version))
               /\ rc.calls[i].op = SearchTiers(rc.version)[i]
    /\ FirstTierWithCandidates # 0 =>
          /\ Len(rc.calls) = FirstTierWithCandidates
          /\ rc.pc = "done"
          /\ rc.result = Some(TierCandidates(rc.calls[FirstTierWithCandidates].op,
                                         rc.calls[FirstTierWithCandidates].answer)[1])

\* A call that created a contact after its three searches left nothing, the
\* last one having answered with a row that is no contact.
C23_Witness ==
    /\ rc.pc = "done" /\ rc.version = "app" /\ Len(rc.calls) = 4
    /\ rc.calls[3].answer.value = <<FoundRow("x1", "Company")>>
    /\ IsCreate(rc.calls[4]) /\ rc.result = Some(FoundRow("new", "Contact"))

(***************************************************************************)
(* Properties of history writing (SpecHistory)                             *)
(***************************************************************************)

\* The position in hw.attempts of the first accepted write, 0 if none.
FirstAccepted ==
    LET hits == {i \in DOMAIN hw.attempts : Accepted(hw.attempts[i].answer)}
    IN IF hits = {} THEN 0 ELSE CHOOSE i \in hits : \A j \in hits : i <= j

\* The candidates are tried in their order, and nothing is sent after a
\* success (nor after an exception).
HistoryInOrder ==
    /\ Len(hw.attempts) <= Len(HistoryCandidates(hw.writer, hw.link_field))
    /\ \A i \in DOMAIN hw.attempts :
          /\ hw.attempts[i].candidate = HistoryCandidates(hw.writer, hw.link_field)[i]
          /\ (Accepted(hw.attempts[i].answer) \/ hw.attempts[i].answer.raised)
                => i = Len(hw.attempts)

\* C24: history writing tries its candidates in their fixed order and stops
\* at the first one the CRM accepts, so the number of attempts is the position
\* of the first accepted candidate; and the result, the response the handler
\* gives, names the candidate that worked.
C24_FirstAcceptedWins ==
    /\ HistoryInOrder
    /\ (hw.pc = "done" /\ FirstAccepted # 0) =>
          /\ Len(hw.attempts) = FirstAccepted
          /\ "link_field" \in DOMAIN hw.resp.v
          /\ hw.resp.v.link_field = hw.attempts[FirstAccepted].candidate

\* C25: when the CRM rejects every history candidate, the write ends in a
\* failure that lists every attempted candidate with its rejection, the
\* caller gets an error response, never a success one, and an EventLog row
\* with status error is written.
C25_AllRejectedIsError ==
    (/\ hw.pc = "done" /\ FirstAccepted = 0
     /\ \A i \in DOMAIN hw.attempts : ~hw.attempts[i].answer.raised)
        => /\ hw.resp.v.code >= 400
           /\ hw.row # None /\ hw.row.v.status = "error"
           /\ hw.error # None
           /\ \A i \in DOMAIN hw.attempts :
                 \E j \in DOMAIN hw.error.v.errors :
                    /\ hw.error.v.errors[j].candidate = hw.attempts[i].candidate
                    /\ hw.error.v.errors[j].status = hw.attempts[i].answer.status

\* C28: a request whose tenant cannot be determined is rejected and changes no
\* queue row; a missing business id is never replaced by a default tenant.  Of
\* bulk_seed and sync_queue: a request that got past find_tenant to its items
\* named a business id, and the tenant whose queue it seeds is the one
\* installed for that business id.
C28_NoDefaultTenant ==
    \A s \in Seeders :
        seeds[s].pc # "idle" =>
            /\ seeds[s].businessid # None
            /\ find_tenant(seeds[s].businessid.v) # None
            /\ find_tenant(seeds[s].businessid.v).id = seeds[s].tenant_id

(***************************************************************************)
(* Properties of the installation (SpecInstall)                            *)
(***************************************************************************)

\* C29: after any sequence of install operations, at most one tenant with the
\* active flag set exists per dialer-platform business id.
C29_OneActiveTenantPerBusinessId ==
    \A i, j \in 1..Len(ins.tenants) :
        /\ ins.tenants[i].active
        /\ ins.tenants[j].active
        /\ ins.tenants[i].kixie_business_id = ins.tenants[j].kixie_business_id
        => i = j

(***************************************************************************)
(* Properties of the field discovery (SpecFields)                          *)
(***************************************************************************)

\* The list the returned fields were taken from: the candidates, or the keys
\* of the sample row when no candidate was selectable.
ProbedList == IF pf.keys # <<>> THEN pf.keys ELSE pf.candidates

\* Every returned field had a selective read answered below 400, and a field
\* whose reads were all answered with an error is not returned.
ReturnedFieldsPassed ==
    pf.pc = "done" =>
        /\ \A k \in 1..Len(pf.result.v) : pf.result.v[k] \in pf.passed
        /\ \A f \in pf.failed \ pf.passed : ~InSeq(f, pf.result.v)

\* The returned list is in the order of the candidates.
ReturnedInCandidateOrder ==
    pf.pc = "done" =>
        /\ Len(pf.from) = Len(pf.result.v)
        /\ \A k \in 1..Len(pf.from) : ProbedList[pf.from[k]] = pf.result.v[k]
        /\ \A k, l \in 1..Len(pf.from) : k < l => pf.from[k] < pf.from[l]

\* The returned list names no field twice.
ReturnedWithoutDuplicates ==
    pf.pc = "done" =>
        \A k, l \in 1..Len(pf.result.v) : pf.result.v[k] = pf.result.v[l] => k = l

\* C30: every field name probe_odata_phone_fields returns passed the
\* single-field selective read with a non-error response, a field whose probe
\* answered with an error is never returned, the list keeps the candidate
\* order without duplicates, and "no usable field" is an empty list returned.
C30_ReturnedFieldsProbed ==
    /\ ReturnedFieldsPassed
    /\ ReturnedInCandidateOrder
    /\ ReturnedWithoutDuplicates
    /\ pf.pc = "done" => (pf.result # None /\ (pf.passed = {} => pf.result.v = <<>>))

\* C31 as stated: probe_odata_phone_fields samples one unfiltered contact row
\* whenever the schema metadata is unavailable or yields no phone-like name.
C31_SampleWhenNoMetadata ==
    pf.pc = "done" /\ pf.meta \in {"unavailable", "none"} => pf.sampled

\* C31: probe_odata_phone_fields samples one unfiltered contact row exactly
\* when none of its candidates (the phone-like names of the schema metadata
\* and the built-in seed names) passed the selective read, whatever the
\* metadata gave; every field it then returns is a phone-like key of the
\* sampled row that passed the same selective read.
C31_SampleWhenNoneSelectable ==
    /\ pf.pc \in {"sample", "infer", "done"} =>
          ((pf.sampled \/ pf.pc = "sample") <=> pf.nvalid = 0)
    /\ pf.pc = "done" /\ pf.sampled =>
          \A k \in 1..Len(pf.result.v) :
             /\ InSeq(pf.result.v[k], pf.keys)
             /\ _like_phone_name(pf.result.v[k])
             /\ pf.result.v[k] \in pf.passed

\* The metadata named a phone-like field, no candidate was selectable, and the
\* sampled row gave a field that was.
C31_Witness ==
    /\ pf.pc = "done" /\ pf.sampled /\ pf.meta = "some"
    /\ pf.nvalid = 0 /\ pf.result.v # <<>>

(***************************************************************************)
(* Properties of the dialer-platform client (SpecPost)                     *)
(***************************************************************************)

IsTransportAnswer(a) == a.kind = "transport"
Is2xxAnswer(a) == a.kind = "http" /\ 200 <= a.code /\ a.code < 300
IsRetryAnswer(a) == a.kind = "http" /\ a.code \in {429, 500, 502, 503, 504}

CallIdOrEmpty(callid) == IF callid = None THEN "" ELSE callid.v

\* C35: idem_key is injective on its inputs: two deliveries get the same
\* fingerprint only if they have the same tenant id, the same call id (a
\* missing one counting as the empty string) and the same event kind; the
\* payload does not influence the fingerprint.
C35_IdemKeyInjective ==
    ik.pc = "done" =>
        /\ ik.ka = ik.kb =>
              /\ ik.a.v.tenant_id = ik.b.v.tenant_id
              /\ CallIdOrEmpty(ik.a.v.callid) = CallIdOrEmpty(ik.b.v.callid)
              /\ ik.a.v.hookevent = ik.b.v.hookevent
        /\ ( /\ ik.a.v.tenant_id = ik.b.v.tenant_id
             /\ CallIdOrEmpty(ik.a.v.callid) = CallIdOrEmpty(ik.b.v.callid)
             /\ ik.a.v.hookevent = ik.b.v.hookevent ) => ik.ka = ik.kb

(***************************************************************************)
(* Properties of the queue of two tenants (SpecTenants)                    *)
(***************************************************************************)

\* C37: queue operations acting for tenant T (next_contact, bulk_seed,
\* sync_queue) never return or modify a queue item of another tenant, and
\* next_contact returns only items whose campaign equals the requested one, a
\* null request matching only items with a null campaign.  Every row a step
\* adds or changes belongs to the tenant of the request that takes the step,
\* which is the tenant installed for the request's business id; a row keeps
\* its tenant and campaign; the item a call returns is of its tenant and
\* campaign.
C37_TenantIsolation ==
    [][ /\ \A i \in 1..Len(queue') :
              (i \notin Items \/ queue'[i] # queue[i]) =>
                 \/ \E a \in Agents :
                       /\ calls[a].pc \in {"reclaim", "lock"} /\ calls'[a] # calls[a]
                       /\ calls[a].tenant_id = queue'[i].tenant_id
                 \/ \E s \in Seeders :
                       /\ seeds[s].pc = "commit" /\ seeds'[s] # seeds[s]
                       /\ seeds[s].tenant_id = queue'[i].tenant_id
                       /\ find_tenant(seeds[s].businessid.v).id = seeds[s].tenant_id
        /\ \A i \in Items :
              /\ queue'[i].tenant_id = queue[i].tenant_id
              /\ queue'[i].campaign = queue[i].campaign
        /\ \A a \in Agents :
              (calls[a].pc = "lock" /\ calls'[a].pc = "done") =>
                 /\ calls'[a].result.code = 200
                 /\ queue[calls'[a].result.id].tenant_id = calls[a].tenant_id
                 /\ queue[calls'[a].result.id].campaign = calls[a].campaign
                 /\ queue'[calls'[a].result.id].locked_by = Some(a) ]_vars

\* Rows of both tenants and of both campaigns are queued, and a call has been
\* returned the row of tenant 1 while the row of tenant 2 is still pending.
C37_Witness ==
    \E i, j \in Items :
        /\ queue[i].tenant_id = 1 /\ queue[j].tenant_id = 2
        /\ queue[i].campaign # queue[j].campaign
        /\ queue[i].status = "locked" /\ queue[j].status = "pending"
        /\ calls["a1"].pc = "done" /\ calls["a1"].result.code = 200
        /\ calls["a1"].result.id = i

(***************************************************************************)
(* Properties of the repeated calls (SpecRepeat)                           *)
(***************************************************************************)

\* C39: if next_contact keeps being called for a tenant and campaign, every
\* pending item of that tenant and campaign is eventually leased, also when
\* earlier leases keep expiring without being released.
C39_PendingEventuallyLeased ==
    \A i \in 1..3 : (queue[i].status = "pending") ~> (queue[i].status = "locked")

(***************************************************************************)
(* Properties of the two-stage search (SpecTwoStage)                       *)
(***************************************************************************)

\* A read of the CRM answered 2xx with a phone-like attribute that holds the
\* searched digits.
ReadConfirmed(r) ==
    /\ Is2xx(r.detail.status) /\ r.detail.isdict
    /\ \E a \in r.detail.body :
          /\ a.val # None /\ PhoneLikeName(a)
          /\ SeqContains(StripNonDigits(a.val.v), ts.digits)

\* The keys the rows of the OData answer carry.
WideKeys ==
    IF ts.wide = None THEN {}
    ELSE {RowKey(ts.wide.v.value[j]).v :
             j \in {j \in 1..Len(ts.wide.v.value) : RowKey(ts.wide.v.value[j]) # None}}

\* A returned contactKey comes with status 200, is the key of a row of the
\* OData answer, and is the first candidate, in the order of the rows, whose
\* read was confirmed.
ReturnedKeyVerified ==
    (ts.pc = "done" /\ ts.result.v.contactKey # None) =>
        LET n == Len(ts.reads)
        IN /\ ts.result.v.status = 200
           /\ n >= 1
           /\ ts.result.v.contactKey.v = ts.reads[n].key
           /\ ts.reads[n].key \in WideKeys
           /\ ReadConfirmed(ts.reads[n])
           /\ \A k \in 1..(n - 1) : ~ReadConfirmed(ts.reads[k])
           /\ [k \in 1..n |-> ts.reads[k].key] = SubSeq(cand_keys(ts.wide.v.value), 1, n)

NoneConfirmed == \A k \in 1..Len(ts.reads) : ~ReadConfirmed(ts.reads[k])

\* C40 as stated: a contactKey is returned with status 200 only for a key of an
\* OData row whose CRM read answered 2xx with a phone-like attribute holding
\* the digits, the candidates are verified in the order of the rows and the
\* first verified one wins, and if none verifies the result is a 404 without
\* a contactKey.
C40_NoneVerifiedIs404 ==
    /\ ReturnedKeyVerified
    /\ (ts.pc = "done" /\ NoneConfirmed) =>
           (ts.result.v.status = 404 /\ ts.result.v.contactKey = None)

\* C40, amended: as above, but if none verifies the result carries no
\* contactKey and is a 404 when the phone holds a digit and the 400 no_digits
\* when it holds none.
C40_NoneVerifiedIs404Or400 ==
    /\ ReturnedKeyVerified
    /\ (ts.pc = "done" /\ NoneConfirmed) =>
           /\ ts.result.v.contactKey = None
           /\ ts.result.v.status = IF digits_only(ts.raw) = None THEN 400 ELSE 404

\* The first candidate was read with a 2xx but not confirmed, the second one
\* was confirmed and returned.
C40_Witness ==
    /\ ts.pc = "done" /\ ts.result.v.status = 200 /\ Len(ts.reads) = 2
    /\ Is2xx(ts.reads[1].detail.status)
    /\ ts.result.v.contactKey = Some(ts.reads[2].key)

====
